---- MODULE Spec2Model ----
(***************************************************************************)
(* Rolling-horizon monthly requirements-and-allocation engine.             *)
(*                                                                         *)
(* Specifications:                                                         *)
(*   Spec       the release planners of production_plan.py working on the  *)
(*              main plan table (init_monthly_fields,                      *)
(*              generate_monthly_fg_plan, generate_monthly_semi_plan) and  *)
(*              append_forecast_accuracy_column;                           *)
(*   SpecWafer  the wafer allocation waterfall of wafer_utils.py working   *)
(*              on the wafer summary table (allocate_fg_demand_monthly);   *)
(*   SpecDemand the wafer demand translator (append_inventory_columns,     *)
(*              append_monthly_demand_from_fg_plan);                       *)
(*   SpecAgg    the aggregation of the detail tables into the main plan    *)
(*              (append_unfulfilled_summary_columns_by_date and the        *)
(*              aggregate_* functions);                                    *)
(*   SpecGap    the gap reporters (append_monthly_gap_columns,             *)
(*              append_cumulative_gap_columns) after the waterfall;        *)
(*   SpecRuns   two calls of PivotProcessor.process on the same uploads;   *)
(*   SpecSupply the supply-append steps of the wafer summary, row by row;  *)
(*   SpecPlanners the release planners anchored in the plan year;          *)
(*   SpecHandoff the planners followed by the wafer demand translator;     *)
(*   SpecEntities the planners and the wafer pipeline, row by row.         *)
(*                                                                         *)
(* Quantities are whole pieces / dies / wafers (integers); on integers     *)
(* pandas' to_numeric, fillna(0) and round(x, 3) leave the value alone,    *)
(* what they do to a blank cell is modelled by ToNumeric.  Quotients (the  *)
(* gaps, the forecast accuracy) are kept in units of their last decimal.   *)
(*                                                                         *)
(* Column names of the tables (Chinese in the source) are written as       *)
(* triples <<kind, year, month>>:                                          *)
(*   <<"InvPart",0,0>>        InvPart            (piece-level safety stock)*)
(*   <<"fg_inv",0,0>>         chengpin cang      (finished-goods warehouse)*)
(*   <<"fg_wip",0,0>>         chengpin zaizhi    (finished-goods WIP)      *)
(*   <<"sfg",0,0>>            banchengpin cang   (semi-finished warehouse) *)
(*   <<"sfg_wip",0,0>>        banchengpin zaizhi (semi-finished WIP)       *)
(*   <<"forecast",0,m>>       "{m}yue yuce"                                *)
(*   <<"order",y,m>>          "weijiao dingdan {y}-{m:02d}"                *)
(*   <<"sales_qty",0,m>>      "{m}yue xiaoshou shuliang"                   *)
(*   <<"fg_plan",0,m>>        "{m}yue chengpin toudan jihua"               *)
(*   <<"semi_plan",0,m>>      "{m}yue banchengpin toudan jihua"            *)
(*   <<"fg_actual",0,m>>      "{m}yue chengpin shiji toudan"               *)
(*   <<"semi_actual",0,m>>    "{m}yue banchengpin shiji toudan"            *)
(***************************************************************************)
EXTENDS Integers, Sequences, FiniteSets, TLC

----------------------------------------------------------------------------
(* Bounds of the model *)

\* forecast month labels lie in start month .. start month + MaxHorizon
MaxHorizon == 2
\* number of unit quantities entered into the main plan before a run
MaxRecords == 2

----------------------------------------------------------------------------
(* Fixtures *)

\* rows (pin ming) of the main plan
Rows == {"A", "B"}
\* the rows of the mapping file (jiu pin ming, xin pin ming, ban cheng pin; ""
\* is an empty cell): "S" is the semi-finished part of "A", "S2" that of the
\* old name "A0", and "B" is entered as a semi-finished part with no
\* finished-goods name on its line
MappingFile ==
  {[old |-> "", new |-> "A", semi |-> "S"],
   [old |-> "A0", new |-> "", semi |-> "S2"],
   [old |-> "", new |-> "", semi |-> "B"]}

\* a slip that would keep every line with a semi-finished part
extract_mappings_unfiltered(mapping_df) ==
  {<<m.new, m.semi>> : m \in {x \in mapping_df : x.semi # ""}}

\* mapping_semi of extract_mappings, as pairs <<xin pin ming, ban cheng pin>>
extract_mappings(mapping_df) ==
  {<<m.new, m.semi>> : m \in {x \in mapping_df : x.semi # "" /\ x.new # ""}}
  \cup {<<m.old, m.semi>> :
          m \in {x \in mapping_df : x.new = "" /\ x.semi # "" /\ x.old # ""}}

\* combined_names of the semi-finished mapping: "A" takes part in it, "B" does not
combined_names ==
  LET tmp == extract_mappings(MappingFile)
  IN {p[1] : p \in tmp} \cup {p[2] : p \in tmp}
\* anchor dates offered by the date picker
StartDates == {[year |-> 2025, month |-> 6], [year |-> 2026, month |-> 6]}

----------------------------------------------------------------------------
(* Cells and columns *)

Blank == [blank |-> TRUE, num |-> 0]
Num(v) == [blank |-> FALSE, num |-> v]

\* pd.to_numeric(cell, errors="coerce") followed by fillna(0)
ToNumeric(c) == IF c.blank THEN 0 ELSE c.num

Col(kind, y, m) == <<kind, y, m>>

max(a, b) == IF a >= b THEN a ELSE b

RECURSIVE sorted(_)
\* sorted({...}) of a set of integers, ascending
sorted(S) ==
  IF S = {} THEN <<>>
  ELSE LET lo == CHOOSE x \in S : \A y \in S : x <= y
       IN <<lo>> \o sorted(S \ {lo})

\* the header blocks init_monthly_fields adds for one month, in template order
\* (the headers no planner reads are left out)
HEADER_TEMPLATE ==
  <<"sales_qty", "sales_amt", "fg_plan", "semi_plan", "fg_actual", "semi_actual", "arrival">>

\* year written into the open-order column names the planners look up
PlanYear == 2025

ScalarCols == <<Col("InvPart", 0, 0), Col("fg_inv", 0, 0), Col("sfg", 0, 0),
                Col("fg_wip", 0, 0), Col("sfg_wip", 0, 0)>>

Window(d) == d.month .. (d.month + MaxHorizon)

SeqToSet(s) == {s[k] : k \in 1..Len(s)}

VARIABLES
  phase,            \* "sources", "upload", "fields", "fg", "semi", ...: how far the run has got
  start_date,       \* anchor date (first day of a month)
  nrec,             \* unit quantities entered so far
  main_plan_df,     \* [columns: sequence of column names, cell: row -> column -> cell]
  forecast_months,  \* result of init_monthly_fields
  fg_df_plan,       \* df_plan of generate_monthly_fg_plan
  semi_df_plan,     \* df_plan of generate_monthly_semi_plan
  errors            \* messages given to st.error

planVars == <<phase, start_date, nrec, main_plan_df, forecast_months,
              fg_df_plan, semi_df_plan, errors>>

VARIABLES
  wphase,           \* "upload", "allocated", "monthly_gap", ...: how far the wafer summary has got
  wrec,             \* unit quantities entered so far
  df_unique_wafer,  \* [columns: sequence of column names, cell: wafer -> column -> cell]
  waterfall         \* per wafer and month, the locals of allocate_fg_demand_monthly

waferVars == <<wphase, wrec, df_unique_wafer, waterfall>>

VARIABLES
  wafer_name,       \* the wafer (jingyuan pin ming) of each row of the main plan
  dataframes        \* the uploaded source tables, each a bag of unit records

srcVars == <<wafer_name, dataframes>>

VARIABLES
  additional_sheets, \* the caller's dict of auxiliary tables (forecast, mapping)
  clock,             \* the day datetime.now() gives
  runs               \* what each call of process() has written, in order

runVars == <<additional_sheets, clock, runs>>

vars == <<planVars, waferVars, srcVars, runVars>>

\* no call of process() on a kept dict of auxiliary tables is looked at
RunIdle ==
  /\ additional_sheets = <<>>
  /\ clock = 1
  /\ runs = <<>>

----------------------------------------------------------------------------
(* The main plan table *)

\* months m with a column "{m}yue yuce" in the table
ForecastLabels(df) ==
  {c[3] : c \in {d \in SeqToSet(df.columns) : d[1] = "forecast"}}

\* the columns a run finds filled in: safety stock, open-order buckets of the
\* anchor year, forecast, stock, WIP, and the month blocks the aggregate_*
\* functions write for the forecast months (their position among the columns
\* is read by no planner)
InputColumns(d, labels) ==
  LET ls == sorted(labels)
      ws == sorted(Window(d))
  IN <<Col("InvPart", 0, 0)>>
     \o [k \in 1..Len(ws) |-> Col("order", d.year, ws[k])]
     \o [k \in 1..Len(ls) |-> Col("forecast", 0, ls[k])]
     \o SubSeq(ScalarCols, 2, 5)
     \o [k \in 1..Len(ls) |-> Col("sales_qty", 0, ls[k])]
     \o [k \in 1..Len(ls) |-> Col("fg_actual", 0, ls[k])]
     \o [k \in 1..Len(ls) |-> Col("semi_actual", 0, ls[k])]

\* df[col] for a column that may be missing: get() of the planners, safe_col
get(df, col) ==
  [r \in Rows |-> IF col \in SeqToSet(df.columns)
                  THEN ToNumeric(df.cell[r][col]) ELSE 0]

\* df[col] = values, appending the column when it is new
SetColumn(df, col, values) ==
  [columns |-> IF col \in SeqToSet(df.columns) THEN df.columns
               ELSE Append(df.columns, col),
   cell    |-> [r \in Rows |->
                 [c \in SeqToSet(df.columns) \cup {col} |->
                    IF c = col THEN values[r] ELSE df.cell[r][c]]]]

InitPlan ==
  /\ phase = "upload"
  /\ start_date \in StartDates
  /\ nrec = 0
  /\ \E labels \in SUBSET Window(start_date) :
       LET cols == InputColumns(start_date, labels)
       IN main_plan_df = [columns |-> cols,
                          cell |-> [r \in Rows |-> [c \in SeqToSet(cols) |-> Num(0)]]]
  /\ forecast_months = <<>>
  /\ fg_df_plan = <<>>
  /\ semi_df_plan = <<>>
  /\ errors = {}

\* one more piece / order line / sale entered for row r in column c
\* (the grouped sums of summary.py and production_plan.py add it to the cell)
Upload(r, c) ==
  /\ phase = "upload"
  /\ nrec < MaxRecords
  /\ c \in SeqToSet(main_plan_df.columns)
  /\ nrec' = nrec + 1
  /\ main_plan_df' =
       [main_plan_df EXCEPT !.cell[r][c] = Num(ToNumeric(@) + 1)]
  /\ UNCHANGED <<phase, start_date, forecast_months, fg_df_plan, semi_df_plan, errors, waferVars, srcVars, runVars>>

----------------------------------------------------------------------------
(* init_monthly_fields *)

\* the columns "{m}yue{header}" for m in range(start_month, end_month + 1),
\* month by month and header by header
MonthlyFieldNames(start_month, end_month) ==
  LET nh == Len(HEADER_TEMPLATE)
      nm == max(end_month - start_month + 1, 0)
  IN [k \in 1..(nm * nh) |->
        Col(HEADER_TEMPLATE[((k - 1) % nh) + 1], 0, start_month + ((k - 1) \div nh))]

RECURSIVE AddBlankColumns(_, _)
\* if col not in main_plan_df.columns: main_plan_df[col] = ""
AddBlankColumns(df, names) ==
  IF names = <<>> THEN df
  ELSE LET col == Head(names)
           nxt == IF col \in SeqToSet(df.columns) THEN df
                  ELSE SetColumn(df, col, [r \in Rows |-> Blank])
       IN AddBlankColumns(nxt, Tail(names))

init_monthly_fields_months(df) == sorted(ForecastLabels(df))

init_monthly_fields_df(df, d) ==
  LET fm == init_monthly_fields_months(df)
  IN IF fm = <<>> THEN df
     ELSE AddBlankColumns(df, MonthlyFieldNames(d.month, fm[Len(fm)] - 1))

InitMonthlyFields ==
  /\ phase = "upload"
  /\ phase' = "fields"
  /\ forecast_months' = init_monthly_fields_months(main_plan_df)
  /\ main_plan_df' = init_monthly_fields_df(main_plan_df, start_date)
  /\ UNCHANGED <<start_date, nrec, fg_df_plan, semi_df_plan, errors, waferVars, srcVars, runVars>>

----------------------------------------------------------------------------
(* generate_monthly_fg_plan *)

\* get_plan(): a column of df_plan by its name, 0 when df_plan has no such column
get_plan(df_plan, col) ==
  [r \in Rows |->
     IF \E k \in 1..Len(df_plan) : df_plan[k].name = col
     THEN df_plan[CHOOSE k \in 1..Len(df_plan) : df_plan[k].name = col].val[r]
     ELSE 0]

\* result of the first month (idx == 0) for one row
fg_first_month(v_invpart, v_fg_inv, v_fg_wip, v_order_this, v_sales_this, v_forecast_this, v_forecast_next, v_order_next) ==
  LET max_next == max(v_forecast_next, v_order_next)
      cond     == v_order_this + v_sales_this > v_forecast_this
  IN IF cond
     THEN v_invpart + v_order_this + max_next - v_fg_inv - v_fg_wip
     ELSE v_invpart + v_forecast_this - v_sales_this + max_next - v_fg_inv - v_fg_wip

\* result of a later month (idx > 0) for one row; v_actual is read and not used
fg_later_month(v_prev_plan, v_actual, v_forecast_next, v_order_next) ==
  v_prev_plan + max(v_forecast_next, v_order_next)

RECURSIVE fg_plan_columns(_, _, _)
\* df_plan after the first n months of forecast_months[:-1]
fg_plan_columns(df, fm, n) ==
  IF n = 0 THEN <<>>
  ELSE
    LET df_plan           == fg_plan_columns(df, fm, n - 1)
        month             == fm[n]
        next              == fm[n + 1]
        col_forecast_this == Col("forecast", 0, month)
        col_order_this    == Col("order", PlanYear, month)
        col_forecast_next == Col("forecast", 0, next)
        col_order_next    == Col("order", PlanYear, next)
        col_target        == Col("fg_plan", 0, month)
        col_sales_this    == Col("sales_qty", 0, month)
        result ==
          IF n = 1
          THEN [r \in Rows |->
                  fg_first_month(get(df, Col("InvPart", 0, 0))[r],
                                 get(df, Col("fg_inv", 0, 0))[r],
                                 get(df, Col("fg_wip", 0, 0))[r],
                                 get(df, col_order_this)[r],
                                 get(df, col_sales_this)[r],
                                 get(df, col_forecast_this)[r],
                                 get(df, col_forecast_next)[r],
                                 get(df, col_order_next)[r])]
          ELSE [r \in Rows |->
                  fg_later_month(get_plan(df_plan, Col("fg_plan", 0, fm[n - 1]))[r],
                                 get(df, Col("fg_actual", 0, fm[n - 1]))[r],
                                 get(df, col_forecast_next)[r],
                                 get(df, col_order_next)[r])]
    IN Append(df_plan, [name |-> col_target, val |-> result])

\* df_plan of a whole run: one column per month of forecast_months[:-1]
fg_plan_table(df, fm) == fg_plan_columns(df, fm, max(Len(fm) - 1, 0))

\* [col for col in main_plan_df.columns if "chengpin toudan jihua" in col
\*  and "banchengpin" not in col]
fg_plan_cols_in_summary(df) == SelectSeq(df.columns, LAMBDA c : c[1] = "fg_plan")

\* the write-back test of both planners
counts_match(plan_cols_in_summary, df_plan) ==
  Len(plan_cols_in_summary) = Len(df_plan)

\* a slip that would fill in the first plan column only
fg_write_back_one(df, cols, df_plan, i) ==
  IF i > Len(cols) THEN df
  ELSE SetColumn(df, cols[i], [r \in Rows |-> Num(df_plan[i].val[r])])

RECURSIVE fg_write_back(_, _, _, _)
\* for i, col in enumerate(plan_cols_in_summary): main_plan_df[col] = df_plan.iloc[:, i]
fg_write_back(df, cols, df_plan, i) ==
  IF i > Len(cols) THEN df
  ELSE fg_write_back(
         SetColumn(df, cols[i], [r \in Rows |-> Num(df_plan[i].val[r])]),
         cols, df_plan, i + 1)

GenerateMonthlyFgPlan ==
  /\ phase = "fields"
  /\ phase' = "fg"
  /\ LET df_plan == fg_plan_table(main_plan_df, forecast_months)
         cols    == fg_plan_cols_in_summary(main_plan_df)
     IN /\ fg_df_plan' = df_plan
        /\ IF counts_match(cols, df_plan)
           THEN /\ main_plan_df' = fg_write_back(main_plan_df, cols, df_plan, 1)
                /\ errors' = errors
           ELSE /\ main_plan_df' = main_plan_df
                /\ errors' = errors \cup {"fg_plan_write_failed"}
  /\ UNCHANGED <<start_date, nrec, forecast_months, semi_df_plan, waferVars, srcVars, runVars>>

----------------------------------------------------------------------------
(* generate_monthly_semi_plan *)

\* mask = main_plan_df["pin ming"].isin(combined_names)
mask == {r \in Rows : r \in combined_names}

\* a slip that would forget the semi-finished WIP
semi_first_month_no_wip(plan_this, sfg, sfg_wip) == plan_this - sfg

\* result of the first month (idx == 0) for one row
semi_first_month(plan_this, sfg, sfg_wip) == plan_this - sfg - sfg_wip

\* result of a later month (idx > 0) for one row; actual_prod is read and not used
semi_later_month(prev_plan, actual_prod, forecast_next, order_next) ==
  prev_plan + max(forecast_next, order_next)

RECURSIVE semi_plan_columns(_, _, _)
\* df_plan after the first n months of forecast_months[:-1]
semi_plan_columns(df, fm, n) ==
  IF n = 0 THEN <<>>
  ELSE
    LET df_plan           == semi_plan_columns(df, fm, n - 1)
        this_month        == fm[n]
        next_month        == fm[n + 1]
        col_target        == Col("semi_plan", 0, this_month)
        col_plan_this     == Col("fg_plan", 0, this_month)
        col_forecast_next == Col("forecast", 0, next_month)
        col_order_next    == Col("order", PlanYear, next_month)
        result ==
          IF n = 1
          THEN [r \in Rows |->
                  semi_first_month(get(df, col_plan_this)[r],
                                   get(df, Col("sfg", 0, 0))[r],
                                   get(df, Col("sfg_wip", 0, 0))[r])]
          ELSE [r \in Rows |->
                  semi_later_month(get_plan(df_plan, Col("semi_plan", 0, fm[n - 1]))[r],
                                   get(df, Col("semi_actual", 0, fm[n - 1]))[r],
                                   get(df, col_forecast_next)[r],
                                   get(df, col_order_next)[r])]
    IN Append(df_plan, [name |-> col_target, val |-> result])

semi_plan_table(df, fm) == semi_plan_columns(df, fm, max(Len(fm) - 1, 0))

\* [col for col in main_plan_df.columns if "banchengpin toudan jihua" in col]
semi_plan_cols_in_summary(df) == SelectSeq(df.columns, LAMBDA c : c[1] = "semi_plan")

\* a slip that would leave 0 in the rows outside the mask
semi_masked_cell_zero(in_mask, v) == IF in_mask THEN Num(v) ELSE Num(0)

\* the cell of a row after main_plan_df[col] = "" and the masked assignment
semi_masked_cell(in_mask, v) == IF in_mask THEN Num(v) ELSE Blank

RECURSIVE semi_write_back(_, _, _, _)
\* main_plan_df[col] = ""; main_plan_df.loc[mask, col] = df_plan.loc[mask, i-th column]
semi_write_back(df, cols, df_plan, i) ==
  IF i > Len(cols) THEN df
  ELSE semi_write_back(
         SetColumn(df, cols[i],
                   [r \in Rows |-> semi_masked_cell(r \in mask, df_plan[i].val[r])]),
         cols, df_plan, i + 1)

GenerateMonthlySemiPlan ==
  /\ phase = "fg"
  /\ phase' = "semi"
  /\ LET df_plan == semi_plan_table(main_plan_df, forecast_months)
         cols    == semi_plan_cols_in_summary(main_plan_df)
     IN /\ semi_df_plan' = df_plan
        /\ IF counts_match(cols, df_plan)
           THEN /\ main_plan_df' = semi_write_back(main_plan_df, cols, df_plan, 1)
                /\ errors' = errors
           ELSE /\ main_plan_df' = main_plan_df
                /\ errors' = errors \cup {"semi_plan_write_failed"}
  /\ UNCHANGED <<start_date, nrec, forecast_months, fg_df_plan, waferVars, srcVars, runVars>>

----------------------------------------------------------------------------
(* append_forecast_accuracy_column *)
(*   <<"accuracy",0,0>>      dangyue yuce zhunque lv (dingdan/yuce)         *)

\* n / d rounded to the nearest whole number, halves to the even one (round())
round_half_even(n, d) ==
  LET q == n \div d
      r == n % d
  IN IF 2 * r < d THEN q
     ELSE IF 2 * r > d THEN q + 1
     ELSE IF q % 2 = 0 THEN q ELSE q + 1

\* the accuracy of one row: -9999, 9999, a percentage with one decimal (kept
\* in tenths of a percent), or nothing
accuracy_cell(forecast, unfulfilled, fulfilled) ==
  LET total_order == unfulfilled + fulfilled
  IN IF total_order = 0 /\ forecast > 0 THEN [blank |-> FALSE, num |-> -9999, pct |-> FALSE]
     ELSE IF total_order > 0 /\ forecast = 0 THEN [blank |-> FALSE, num |-> 9999, pct |-> FALSE]
     ELSE IF total_order > 0 /\ forecast > 0
          THEN [blank |-> FALSE, num |-> round_half_even(total_order * 1000, forecast),
                pct |-> TRUE]
     ELSE [blank |-> TRUE, num |-> 0, pct |-> FALSE]

\* the three columns read with main_plan_df[col]: a missing one is a KeyError
accuracy_inputs(d) ==
  {Col("forecast", 0, d.month), Col("order", d.year, d.month), Col("sales_qty", 0, d.month)}

\* the columns with the accuracy column put behind "banchengpin zaizhi"
insert_accuracy(columns) ==
  IF Col("sfg_wip", 0, 0) \in SeqToSet(columns)
  THEN LET pos == CHOOSE k \in 1..Len(columns) : columns[k] = Col("sfg_wip", 0, 0)
       IN SubSeq(columns, 1, pos) \o <<Col("accuracy", 0, 0)>>
          \o SubSeq(columns, pos + 1, Len(columns))
  ELSE Append(columns, Col("accuracy", 0, 0))

append_forecast_accuracy_column(df, d) ==
  LET cols == insert_accuracy(df.columns)
  IN [columns |-> cols,
      cell |-> [r \in Rows |->
                 [c \in SeqToSet(cols) |->
                    IF c = Col("accuracy", 0, 0)
                    THEN accuracy_cell(ToNumeric(df.cell[r][Col("forecast", 0, d.month)]),
                                       ToNumeric(df.cell[r][Col("order", d.year, d.month)]),
                                       ToNumeric(df.cell[r][Col("sales_qty", 0, d.month)]))
                    ELSE df.cell[r][c]]]]

AppendForecastAccuracyColumn ==
  /\ phase = "semi"
  /\ IF accuracy_inputs(start_date) \subseteq SeqToSet(main_plan_df.columns)
     THEN /\ phase' = "accuracy"
          /\ main_plan_df' = append_forecast_accuracy_column(main_plan_df, start_date)
          /\ errors' = errors
     ELSE /\ phase' = "raised"
          /\ main_plan_df' = main_plan_df
          /\ errors' = errors \cup {"KeyError"}
  /\ UNCHANGED <<start_date, nrec, forecast_months, fg_df_plan, semi_df_plan, waferVars, srcVars, runVars>>

----------------------------------------------------------------------------
(* The wafer summary table *)
(*   <<"unit",0,0>>          danpian shuliang (gross die per wafer)        *)
(*   <<"pool_split",0,0>>    fenpian jingyuan cang                         *)
(*   <<"pool_eng",0,0>>      gongcheng jingyuan cang                       *)
(*   <<"pool_tested",0,0>>   yi ce jingyuan cang                           *)
(*   <<"pool_untested",0,0>> wei ce jingyuan cang                          *)
(*   <<"cp_wip",0,0>>        CP zaizhi (Total)                             *)
(*   <<"fab_wh",0,0>>        Fab warehouse                                 *)
(*   <<"wo",y,m>>            "{y}-{m:02d} WO"                              *)
(*   <<"demand",y,m>>        "{y}-{m:02d} xuqiu"                           *)
(*   <<"alloc",y,m>>         "{y}-{m:02d} fenpei"                          *)

\* number of months with a demand column
MaxPeriods == 2
\* number of quantities entered into the wafer summary before a run
MaxWaferRecords == 2

\* rows (jingyuan pin ming) of the wafer summary
Wafers == {"W1", "W2"}
\* GROSS DIE figures of the GROSSDIE table; 0 is a figure the table can hold
GrossDieValues == {0, 2}
\* sizes of the demand entries in dies (the differenced demand may be negative)
DemandSteps == {-1, 1, 2}
WaferStartDates == {[year |-> 2025, month |-> 6], [year |-> 2026, month |-> 1]}

\* a calendar month as a number of months, and back
MonthIndex(y, m) == 12 * y + (m - 1)
AddMonths(d, k) ==
  LET t == MonthIndex(d.year, d.month) + k
  IN [year |-> t \div 12, month |-> (t % 12) + 1]

PoolCols == <<Col("pool_split", 0, 0), Col("pool_eng", 0, 0),
              Col("pool_tested", 0, 0), Col("pool_untested", 0, 0)>>

\* the columns the supply-append steps and the demand translator leave in the
\* table: WO from the month before the anchor on, demand from the anchor on
WaferInputColumns(d) ==
  <<Col("unit", 0, 0)>> \o PoolCols
  \o <<Col("cp_wip", 0, 0), Col("fab_wh", 0, 0)>>
  \o [k \in 1..(MaxPeriods + 1) |->
        Col("wo", AddMonths(d, k - 2).year, AddMonths(d, k - 2).month)]
  \o [k \in 1..MaxPeriods |->
        Col("demand", AddMonths(d, k - 1).year, AddMonths(d, k - 1).month)]


\* a slip that would read every row's figures from the first row of the table
row_get_first(df, w, col) ==
  IF col \in SeqToSet(df.columns) THEN ToNumeric(df.cell["W1"][col]) ELSE 0

\* row.get(col, 0) read as a number
row_get(df, w, col) ==
  IF col \in SeqToSet(df.columns) THEN ToNumeric(df.cell[w][col]) ELSE 0

InitWafer ==
  /\ wphase = "upload"
  /\ wrec = 0
  /\ LET cols == WaferInputColumns(start_date)
     IN df_unique_wafer =
          [columns |-> cols,
           cell |-> [w \in Wafers |->
                      [c \in SeqToSet(cols) |->
                         IF c = Col("unit", 0, 0) THEN Blank ELSE Num(0)]]]
  /\ waterfall = [w \in Wafers |-> <<>>]

\* extract_wafer_with_grossdie_raw finds a GROSS DIE figure g for wafer w
UploadGrossDie(w, g) ==
  /\ wphase = "upload"
  /\ df_unique_wafer.cell[w][Col("unit", 0, 0)].blank
  /\ df_unique_wafer' =
       [df_unique_wafer EXCEPT !.cell[w][Col("unit", 0, 0)] = Num(g)]
  /\ UNCHANGED <<wphase, wrec, waterfall, planVars, srcVars, runVars>>

\* one more wafer / die of supply (q = 1) in column c of wafer w, or q dies
\* more of demand
UploadWafer(w, c, q) ==
  /\ wphase = "upload"
  /\ wrec < MaxWaferRecords
  /\ c \in SeqToSet(df_unique_wafer.columns)
  /\ c # Col("unit", 0, 0)
  /\ IF c[1] = "demand" THEN q \in DemandSteps ELSE q = 1
  /\ wrec' = wrec + 1
  /\ df_unique_wafer' =
       [df_unique_wafer EXCEPT !.cell[w][c] = Num(ToNumeric(@) + q)]
  /\ UNCHANGED <<wphase, waterfall, planVars, srcVars, runVars>>

----------------------------------------------------------------------------
(* allocate_fg_demand_monthly *)

RECURSIVE sort_by_date(_)
\* the columns of a set sorted by their year and month, ascending
sort_by_date(S) ==
  IF S = {} THEN <<>>
  ELSE LET lo == CHOOSE c \in S :
                   \A d \in S : MonthIndex(c[2], c[3]) <= MonthIndex(d[2], d[3])
       IN <<lo>> \o sort_by_date(S \ {lo})

\* sorted_month_strs: the months of the "xuqiu" columns, ascending
sorted_month_strs(df) ==
  LET cols == sort_by_date({c \in SeqToSet(df.columns) : c[1] = "demand"})
  IN [k \in 1..Len(cols) |-> [year |-> cols[k][2], month |-> cols[k][3]]]

\* wo_cols: the "WO" columns, ascending by date
wo_cols(df) == sort_by_date({c \in SeqToSet(df.columns) : c[1] = "wo"})

\* pd.to_numeric(row.get("danpian shuliang", 1.0), errors="coerce") or 1.0:
\* a missing figure is NaN and stays NaN (NaN is truthy), 0 becomes 1.0
wafer_unit(c) == IF c.blank THEN Blank ELSE IF c.num = 0 THEN Num(1) ELSE c

RECURSIVE wo_before_sum(_, _, _, _)
\* sum of the WO columns dated before first_date, over cols[k..]
wo_before_sum(df, w, first_date, cols) ==
  IF cols = <<>> THEN 0
  ELSE LET c == Head(cols)
           v == IF MonthIndex(c[2], c[3]) < MonthIndex(first_date.year, first_date.month)
                THEN row_get(df, w, c) ELSE 0
       IN v + wo_before_sum(df, w, first_date, Tail(cols))

\* a slip that would add the fab warehouse wafers without converting them to dies
total_available_first_unconverted(pool_split, pool_eng, pool_tested, pool_untested, cp_wip, fab_wh, wo_before, unit) ==
  pool_split + pool_eng + pool_tested + pool_untested + cp_wip
  + fab_wh + wo_before * unit

\* total_available of the first month
total_available_first(pool_split, pool_eng, pool_tested, pool_untested, cp_wip, fab_wh, wo_before, unit) ==
  pool_split + pool_eng + pool_tested + pool_untested + cp_wip
  + fab_wh * unit + wo_before * unit

\* total_available of a later month; wo is the WO column of the month before
total_available_later(rest_prev, wo, unit) == rest_prev + wo * unit

\* a slip that would read the WO column of the month itself
wo_month_same(months, n) == months[n]

\* prev_month = sorted_month_strs[i - 1], the month whose WO column is read
wo_month(months, n) == months[n - 1]

\* a slip that would hand out the demand whatever is available
allocated_of_uncapped(total_available, demand) == demand

\* a slip that would hand out all the supply whatever the demand
allocated_of_all(total_available, demand) == total_available

\* allocated = demand if delta > 0 else total_available
allocated_of(total_available, demand) ==
  LET delta == total_available - demand
  IN IF delta > 0 THEN demand ELSE total_available

\* a slip that would carry the shortage forward
rest_of_unclamped(total_available, demand) == total_available - demand

\* rest_prev = max(delta, 0)
rest_of(total_available, demand) == max(total_available - demand, 0)

\* every figure of a row whose unit is NaN is NaN
NaNMonth == [nan |-> TRUE, unit |-> 0, total_available |-> 0, demand |-> 0,
             allocated |-> 0, rest_prev |-> 0]

RECURSIVE waterfall_row(_, _, _, _)
\* the locals of the first n months of the loop over sorted_month_strs for row w
waterfall_row(df, w, first_date, n) ==
  IF n = 0 THEN <<>>
  ELSE
    LET before == waterfall_row(df, w, first_date, n - 1)
        months == sorted_month_strs(df)
        ym     == months[n]
        unit   == wafer_unit(df.cell[w][Col("unit", 0, 0)])
        demand == row_get(df, w, Col("demand", ym.year, ym.month))
        total_available ==
          IF n = 1
          THEN total_available_first(
                 row_get(df, w, Col("pool_split", 0, 0)),
                 row_get(df, w, Col("pool_eng", 0, 0)),
                 row_get(df, w, Col("pool_tested", 0, 0)),
                 row_get(df, w, Col("pool_untested", 0, 0)),
                 row_get(df, w, Col("cp_wip", 0, 0)),
                 row_get(df, w, Col("fab_wh", 0, 0)),
                 wo_before_sum(df, w, first_date, wo_cols(df)),
                 unit.num)
          ELSE LET prev_month == wo_month(months, n)
               IN total_available_later(
                    before[n - 1].rest_prev,
                    row_get(df, w, Col("wo", prev_month.year, prev_month.month)),
                    unit.num)
    IN Append(before,
              IF unit.blank THEN NaNMonth
              ELSE [nan |-> FALSE, unit |-> unit.num,
                    total_available |-> total_available,
                    demand |-> demand,
                    allocated |-> allocated_of(total_available, demand),
                    rest_prev |-> rest_of(total_available, demand)])

\* df.at[idx, alloc_col] = round(allocated, 3) for every row and month
allocation_columns(df, trace) ==
  LET months == sorted_month_strs(df)
      newcols == [k \in 1..Len(months) |-> Col("alloc", months[k].year, months[k].month)]
      allcols == df.columns \o SelectSeq(newcols, LAMBDA c : c \notin SeqToSet(df.columns))
  IN [columns |-> allcols,
      cell |-> [w \in Wafers |->
                 [c \in SeqToSet(allcols) |->
                    IF c[1] = "alloc"
                    THEN LET k == CHOOSE j \in 1..Len(months) :
                                    c = Col("alloc", months[j].year, months[j].month)
                         IN IF trace[w][k].nan THEN Blank ELSE Num(trace[w][k].allocated)
                    ELSE df.cell[w][c]]]]

\* the table has at least one "xuqiu" column (otherwise the function raises)
AllocateFgDemandMonthly ==
  /\ wphase = "upload"
  /\ sorted_month_strs(df_unique_wafer) # <<>>
  /\ wphase' = "allocated"
  /\ LET n     == Len(sorted_month_strs(df_unique_wafer))
         trace == [w \in Wafers |-> waterfall_row(df_unique_wafer, w, start_date, n)]
     IN /\ waterfall' = trace
        /\ df_unique_wafer' = allocation_columns(df_unique_wafer, trace)
  /\ UNCHANGED <<wrec, planVars, srcVars, runVars>>

----------------------------------------------------------------------------
(* append_monthly_gap_columns and append_cumulative_gap_columns *)
(*   <<"gap",y,m>>           "{y}-{m:02d} quekou"                          *)
(*   <<"cum_gap",y,m>>       "{y}-{m:02d} leiji quekou"                    *)
(* A gap is a number of wafers with three decimals; its cell holds the     *)
(* number of thousandths of a wafer.                                       *)

\* gross-die figures of the gap tables: none found (0) and a figure of the
\* size of a real wafer, with which a few dies are thousandths of a wafer
GapDieValues == {0, 5000}

\* anchor date of the gap tables: a January, so that the fab output dated
\* before the anchor lies in the year before
GapStartDates == {[year |-> 2026, month |-> 1]}

\* the wafer summary with the InvPart column append_inventory_columns adds
GapInputColumns(d) == WaferInputColumns(d) \o <<Col("InvPart", 0, 0)>>

InitGap ==
  /\ wphase = "upload"
  /\ wrec = 0
  /\ LET cols == GapInputColumns(start_date)
     IN df_unique_wafer =
          [columns |-> cols,
           cell |-> [w \in Wafers |->
                      [c \in SeqToSet(cols) |->
                         IF c = Col("unit", 0, 0) THEN Blank ELSE Num(0)]]]
  /\ waterfall = [w \in Wafers |-> <<>>]

\* the "xuqiu" columns of years 20xx, in the order of the table
gap_demand_cols(df) ==
  SelectSeq(df.columns, LAMBDA c : c[1] = "demand" /\ c[2] \div 100 = 20)

\* df["danpian shuliang"].replace({0: NaN})
single_die(c) == IF c.blank \/ c.num = 0 THEN Blank ELSE c

\* a slip that would report allocation minus demand
gap_of_reversed(demand, alloc, unit) == round_half_even(1000 * (alloc - demand), unit)

\* ((demand - alloc) / single_die).round(3), in thousandths
gap_of(demand, alloc, unit) == round_half_even(1000 * (demand - alloc), unit)

\* one cell of a gap column: NaN operands give NaN, which fillna(0) turns into 0
monthly_gap_cell(demand, alloc, unit) ==
  IF demand.blank \/ alloc.blank \/ unit.blank THEN Num(0)
  ELSE Num(gap_of(demand.num, alloc.num, unit.num))

RECURSIVE append_monthly_gap_columns(_, _)
\* the table with a gap column for every demand column of cols
append_monthly_gap_columns(df, cols) ==
  IF cols = <<>> THEN df
  ELSE LET c == Head(cols)
           alloc == Col("alloc", c[2], c[3])
           gap == Col("gap", c[2], c[3])
           new == [columns |-> IF gap \in SeqToSet(df.columns) THEN df.columns
                               ELSE Append(df.columns, gap),
                   cell |-> [w \in Wafers |->
                              [x \in SeqToSet(df.columns) \cup {gap} |->
                                 IF x = gap
                                 THEN monthly_gap_cell(df.cell[w][c], df.cell[w][alloc],
                                                       single_die(df.cell[w][Col("unit", 0, 0)]))
                                 ELSE df.cell[w][x]]]]
       IN append_monthly_gap_columns(new, Tail(cols))

\* every demand column has its allocation column (otherwise ValueError)
AppendMonthlyGapColumns ==
  /\ wphase = "allocated"
  /\ LET cols == gap_demand_cols(df_unique_wafer)
     IN IF \A k \in 1..Len(cols) :
             Col("alloc", cols[k][2], cols[k][3]) \in SeqToSet(df_unique_wafer.columns)
        THEN /\ wphase' = "monthly_gap"
             /\ df_unique_wafer' = append_monthly_gap_columns(df_unique_wafer, cols)
             /\ UNCHANGED errors
        ELSE /\ wphase' = "failed"
             /\ errors' = errors \cup {"ValueError: no allocation column"}
             /\ UNCHANGED df_unique_wafer
  /\ UNCHANGED <<wrec, waterfall, phase, start_date, nrec, main_plan_df, forecast_months, fg_df_plan, semi_df_plan, srcVars, runVars>>

RECURSIVE demand_sum(_, _, _, _)
\* the sum of the first n sorted demand columns of row w
demand_sum(df, w, months, n) ==
  IF n = 0 THEN 0
  ELSE row_get(df, w, Col("demand", months[n].year, months[n].month))
       + demand_sum(df, w, months, n - 1)

\* a slip that would start the cumulative supply from the safety stock alone
cumulative_first_inv_only(on_hand, inv_part) == inv_part

\* total_available of the first month: that of the waterfall plus inv_part
cumulative_first(on_hand, inv_part) == on_hand + inv_part

RECURSIVE cumulative_available(_, _, _, _, _)
\* total_available after the first n months: nothing is taken off for what
\* was allocated
cumulative_available(df, w, first_date, unit, n) ==
  LET months == sorted_month_strs(df)
  IN IF n = 1
     THEN cumulative_first(
            total_available_first(
              row_get(df, w, Col("pool_split", 0, 0)),
              row_get(df, w, Col("pool_eng", 0, 0)),
              row_get(df, w, Col("pool_tested", 0, 0)),
              row_get(df, w, Col("pool_untested", 0, 0)),
              row_get(df, w, Col("cp_wip", 0, 0)),
              row_get(df, w, Col("fab_wh", 0, 0)),
              wo_before_sum(df, w, first_date, wo_cols(df)),
              unit),
            row_get(df, w, Col("InvPart", 0, 0)))
     ELSE cumulative_available(df, w, first_date, unit, n - 1)
          + row_get(df, w, Col("wo", months[n - 1].year, months[n - 1].month)) * unit

\* round((demand_sum - total_available) / wafer_unit, 3), in thousandths;
\* NaN for a row whose unit is NaN
cumulative_gap_cell(df, w, first_date, n) ==
  LET unit == wafer_unit(df.cell[w][Col("unit", 0, 0)])
  IN IF unit.blank THEN Blank
     ELSE Num(round_half_even(
                1000 * (demand_sum(df, w, sorted_month_strs(df), n)
                        - cumulative_available(df, w, first_date, unit.num, n)),
                unit.num))

append_cumulative_gap_columns(df, first_date) ==
  LET months == sorted_month_strs(df)
      newcols == [k \in 1..Len(months) |-> Col("cum_gap", months[k].year, months[k].month)]
      allcols == df.columns \o SelectSeq(newcols, LAMBDA c : c \notin SeqToSet(df.columns))
  IN [columns |-> allcols,
      cell |-> [w \in Wafers |->
                 [c \in SeqToSet(allcols) |->
                    IF c[1] = "cum_gap"
                    THEN LET k == CHOOSE j \in 1..Len(months) :
                                    c = Col("cum_gap", months[j].year, months[j].month)
                         IN cumulative_gap_cell(df, w, first_date, k)
                    ELSE df.cell[w][c]]]]

\* the table has at least one "xuqiu" column (otherwise ValueError)
AppendCumulativeGapColumns ==
  /\ wphase = "monthly_gap"
  /\ IF sorted_month_strs(df_unique_wafer) # <<>>
     THEN /\ wphase' = "cumulative_gap"
          /\ df_unique_wafer' = append_cumulative_gap_columns(df_unique_wafer, start_date)
          /\ UNCHANGED errors
     ELSE /\ wphase' = "failed"
          /\ errors' = errors \cup {"ValueError: no demand column"}
          /\ UNCHANGED df_unique_wafer
  /\ UNCHANGED <<wrec, waterfall, phase, start_date, nrec, main_plan_df, forecast_months, fg_df_plan, semi_df_plan, srcVars, runVars>>

----------------------------------------------------------------------------
(* append_inventory_columns and append_monthly_demand_from_fg_plan *)
(*   <<"fg_plan_ym",y,m>>    "{y}-{m:02d} chengpin toudan jihua"           *)
(*   <<"InvPart",0,0>>       InvPart summed per wafer                      *)

RECURSIVE sum_over(_, _)
\* the sum of f over the rows S (groupby(...).sum() for one group)
sum_over(S, f) ==
  IF S = {} THEN 0
  ELSE LET r == CHOOSE x \in S : TRUE
       IN f[r] + sum_over(S \ {r}, f)

\* the rows of the main plan that carry wafer name w
rows_of_wafer(wn, w) == {r \in Rows : wn[r] = w}

\* wafer_names: the distinct wafer names of the main plan
wafer_names(wn) == {wn[r] : r \in Rows}

\* the release-plan columns the translator expects, each month of the horizon
FgPlanYmColumns(d, n) ==
  [k \in 1..n |-> Col("fg_plan_ym", AddMonths(d, k - 1).year, AddMonths(d, k - 1).month)]

\* the main plan with InvPart and n release-plan columns, nothing entered yet,
\* and the wafer summary as extract_wafer_with_grossdie_raw leaves it
InitDemand ==
  /\ wphase = "plan"
  /\ wrec = 0
  /\ phase = "idle"
  /\ nrec = 0
  /\ start_date \in WaferStartDates
  /\ wafer_name \in [Rows -> Wafers]
  /\ \E n \in 0..MaxPeriods :
       LET cols == <<Col("InvPart", 0, 0)>> \o FgPlanYmColumns(start_date, n)
       IN main_plan_df = [columns |-> cols,
                          cell |-> [r \in Rows |-> [c \in SeqToSet(cols) |-> Num(0)]]]
  /\ df_unique_wafer =
       [columns |-> <<Col("unit", 0, 0)>>,
        cell |-> [w \in wafer_names(wafer_name) |->
                   [c \in {Col("unit", 0, 0)} |-> Blank]]]
  /\ waterfall = [w \in Wafers |-> <<>>]
  /\ forecast_months = <<>>
  /\ fg_df_plan = <<>>
  /\ semi_df_plan = <<>>
  /\ errors = {}
  /\ dataframes = <<>>
  /\ RunIdle

\* one more piece of safety stock (q = 1) for row r, or a release plan of row r
\* one piece higher or lower
UploadPlan(r, c, q) ==
  /\ wphase = "plan"
  /\ wrec < MaxWaferRecords
  /\ c \in SeqToSet(main_plan_df.columns)
  /\ q = 1 \/ c[1] = "fg_plan_ym"
  /\ wrec' = wrec + 1
  /\ main_plan_df' = [main_plan_df EXCEPT !.cell[r][c] = Num(ToNumeric(@) + q)]
  /\ UNCHANGED <<wphase, df_unique_wafer, waterfall, phase, start_date, nrec,
                 forecast_months, fg_df_plan, semi_df_plan, errors, srcVars, runVars>>

\* append_inventory_columns: InvPart summed per wafer name, merged on the name
append_inventory_columns(df_w, df, wn) ==
  LET cols == Append(df_w.columns, Col("InvPart", 0, 0))
  IN [columns |-> cols,
      cell |-> [w \in DOMAIN df_w.cell |->
                 [c \in SeqToSet(cols) |->
                    IF c = Col("InvPart", 0, 0)
                    THEN Num(sum_over(rows_of_wafer(wn, w), get(df, Col("InvPart", 0, 0))))
                    ELSE df_w.cell[w][c]]]]

AppendInventoryColumns ==
  /\ wphase = "plan"
  /\ wphase' = "inventory"
  /\ df_unique_wafer' = append_inventory_columns(df_unique_wafer, main_plan_df, wafer_name)
  /\ UNCHANGED <<wrec, waterfall, planVars, srcVars, runVars>>

\* plan_cols sorted by date
sorted_plan_cols(df) ==
  sort_by_date({c \in SeqToSet(df.columns) : c[1] = "fg_plan_ym"})

\* grouped[col] for wafer w
grouped(df, wn, w, col) == sum_over(rows_of_wafer(wn, w), get(df, col))

\* a slip that would cut a falling release plan off at 0
demand_diff_clamped(cur, prev) == max(cur - prev, 0)

\* diff_df[col] = grouped[col] - grouped[prev_col]
demand_diff(cur, prev) == cur - prev

\* the "xuqiu" figure of wafer w for the k-th plan column
monthly_demand(df_w, df, wn, w, k) ==
  LET cols == sorted_plan_cols(df)
  IN IF k = 1
     THEN grouped(df, wn, w, cols[1]) - ToNumeric(df_w.cell[w][Col("InvPart", 0, 0)])
     ELSE demand_diff(grouped(df, wn, w, cols[k]), grouped(df, wn, w, cols[k - 1]))

\* temp_df after the merge, the subtraction of InvPart and the renaming
append_monthly_demand_from_fg_plan(df_w, df, wn) ==
  LET pc   == sorted_plan_cols(df)
      dc   == [k \in 1..Len(pc) |-> Col("demand", pc[k][2], pc[k][3])]
      cols == df_w.columns \o dc
  IN [columns |-> cols,
      cell |-> [w \in DOMAIN df_w.cell |->
                 [c \in SeqToSet(cols) |->
                    IF c[1] = "demand"
                    THEN LET k == CHOOSE j \in 1..Len(dc) : dc[j] = c
                         IN Num(monthly_demand(df_w, df, wn, w, k))
                    ELSE df_w.cell[w][c]]]]

\* raises ValueError when the main plan has no "YYYY-MM chengpin toudan jihua" column
AppendMonthlyDemandFromFgPlan ==
  /\ wphase = "inventory"
  /\ IF sorted_plan_cols(main_plan_df) = <<>>
     THEN /\ wphase' = "failed"
          /\ errors' = errors \cup {"ValueError: no fg plan columns"}
          /\ UNCHANGED df_unique_wafer
     ELSE /\ wphase' = "demand"
          /\ df_unique_wafer' =
               append_monthly_demand_from_fg_plan(df_unique_wafer, main_plan_df, wafer_name)
          /\ UNCHANGED errors
  /\ UNCHANGED <<wrec, waterfall, phase, start_date, nrec, main_plan_df,
                 forecast_months, fg_df_plan, semi_df_plan, srcVars, runVars>>

\* process() after the planners: the wafer summary starts as the distinct
\* wafer names of the main plan with their gross die figure (none found here)
ExtractWaferWithGrossdieRaw ==
  /\ phase = "semi"
  /\ wphase = "waiting"
  /\ wphase' = "plan"
  /\ df_unique_wafer' =
       [columns |-> <<Col("unit", 0, 0)>>,
        cell |-> [w \in wafer_names(wafer_name) |->
                   [c \in {Col("unit", 0, 0)} |-> Blank]]]
  /\ UNCHANGED <<wrec, waterfall, planVars, srcVars, runVars>>

----------------------------------------------------------------------------
(* The detail tables and the aggregators of summary.py / production_plan.py *)
(*   <<"total_orders",0,0>>  zong weijiao dingdan                          *)
(*   <<"hist_orders",0,0>>   lishi weijiao dingdan                         *)
(*   <<"arrival",0,m>>       "{m}yue huihuo shiji"                         *)
(*   <<"sales_amt",0,m>>     "{m}yue xiaoshou jine"                        *)

\* the detail tables of self.dataframes read by the aggregators:
\* open orders, order placements, arrivals, sales
Sources == {"unfulfilled", "order", "arrival", "sales"}
\* part names on the detail lines: the rows of the main plan and a
\* semi-finished part that is no row of it
Parts == Rows \cup {"S"}
\* semi_dict of aggregate_actual_sfg_orders: semi-finished part -> new product name
semi_dict == [p \in {"S"} |-> "A"]
\* dates of the detail lines, in months from the anchor month: a year back,
\* three months back, last month, the anchor month, next month
LineOffsets == {-12, -3, -1, 0, 1}
LineDates(d) == {AddMonths(d, k) : k \in LineOffsets}
\* a table is a bag of lines of quantity 1 (and amount 1), keyed by part and date
LineKeys(d) == Parts \X LineDates(d)

\* df.empty
empty(table) == \A k \in DOMAIN table : table[k] = 0

\* the main plan before any detail table is merged: stock, WIP and the forecast
\* columns append_forecast_to_summary adds (0 for a part without forecast)
BaseColumns(labels) ==
  LET ls == sorted(labels)
  IN <<Col("InvPart", 0, 0)>>
     \o [k \in 1..Len(ls) |-> Col("forecast", 0, ls[k])]
     \o SubSeq(ScalarCols, 2, 5)

InitAgg ==
  /\ phase = "sources"
  /\ start_date \in StartDates
  /\ nrec = 0
  /\ \E labels \in SUBSET Window(start_date) :
       LET cols == BaseColumns(labels)
       IN main_plan_df = [columns |-> cols,
                          cell |-> [r \in Rows |-> [c \in SeqToSet(cols) |-> Num(0)]]]
  /\ forecast_months = <<>>
  /\ fg_df_plan = <<>>
  /\ semi_df_plan = <<>>
  /\ errors = {}
  /\ wafer_name = [r \in Rows |-> "W1"]
  /\ dataframes = [s \in Sources |-> [k \in LineKeys(start_date) |-> 0]]
  /\ RunIdle

\* one more line for part p dated ym in the detail table src
UploadLine(src, p, ym) ==
  /\ phase = "sources"
  /\ nrec < MaxRecords
  /\ <<p, ym>> \in LineKeys(start_date)
  /\ nrec' = nrec + 1
  /\ dataframes' = [dataframes EXCEPT ![src][<<p, ym>>] = @ + 1]
  /\ UNCHANGED <<phase, start_date, main_plan_df, forecast_months, fg_df_plan, semi_df_plan, errors, waferVars, wafer_name, runVars>>

\* the lines of a table
lines_of(table) == {k \in DOMAIN table : table[k] > 0}

\* pd.to_datetime(df["yu jiaohuo ri"]).max()
max_date(table) ==
  LET ds == {k[2] : k \in lines_of(table)}
  IN CHOOSE x \in ds : \A y \in ds : MonthIndex(y.year, y.month) <= MonthIndex(x.year, x.month)

\* pd.period_range(today, max_date + MonthBegin(1), freq="M"): empty when the
\* end lies before the start
future_months(table, d) ==
  LET last == AddMonths(max_date(table), 1)
      n == MonthIndex(last.year, last.month) - MonthIndex(d.year, d.month) + 1
  IN [k \in 1..max(n, 0) |-> AddMonths(d, k - 1)]

\* df_hist: per part, the quantity due before the anchor month
hist_of(table, d, r) ==
  sum_over({k \in lines_of(table) :
              k[1] = r /\ MonthIndex(k[2].year, k[2].month) < MonthIndex(d.year, d.month)},
           table)

\* df_pivot: per part and month of today or later, the quantity due in the month,
\* 0 for a month without a line
pivot_of(table, r, ym) == IF <<r, ym>> \in DOMAIN table THEN table[<<r, ym>>] ELSE 0

\* a cell of df_merged: the historical quantity goes into future_cols[0],
\* the historical column is dropped
merged_cell(table, d, r, fm, k) ==
  pivot_of(table, r, fm[k]) + (IF k = 1 THEN hist_of(table, d, r) ELSE 0)

RECURSIVE sum_seq(_)
sum_seq(s) == IF s = <<>> THEN 0 ELSE Head(s) + sum_seq(Tail(s))

\* the left merge into the main plan: zong weijiao dingdan, then future_cols
append_unfulfilled_summary_columns_by_date(df, table, d) ==
  LET fm == future_months(table, d)
      future_cols == [k \in 1..Len(fm) |-> Col("order", fm[k].year, fm[k].month)]
      total == Col("total_orders", 0, 0)
      cols == df.columns \o <<total>> \o future_cols
      row(r) == [k \in 1..Len(fm) |-> merged_cell(table, d, r, fm, k)]
  IN [columns |-> cols,
      cell |-> [r \in Rows |->
                 [c \in SeqToSet(cols) |->
                    IF c = total THEN Num(sum_seq(row(r)))
                    ELSE IF c \in SeqToSet(future_cols)
                         THEN Num(row(r)[CHOOSE k \in 1..Len(fm) : future_cols[k] = c])
                         ELSE df.cell[r][c]]]]

\* the open-order step of the pipeline: skipped for an empty table;
\* first_col = future_cols[0] raises IndexError on an empty future_cols
AppendUnfulfilledSummaryColumnsByDate ==
  /\ phase = "sources"
  /\ LET table == dataframes["unfulfilled"]
     IN IF empty(table)
        THEN /\ phase' = "upload"
             /\ UNCHANGED <<main_plan_df, errors>>
        ELSE IF future_months(table, start_date) = <<>>
        THEN /\ phase' = "raised"
             /\ errors' = errors \cup {"IndexError"}
             /\ UNCHANGED main_plan_df
        ELSE /\ phase' = "upload"
             /\ main_plan_df' =
                  append_unfulfilled_summary_columns_by_date(main_plan_df, table, start_date)
             /\ UNCHANGED errors
  /\ UNCHANGED <<start_date, nrec, forecast_months, fg_df_plan, semi_df_plan, waferVars, srcVars, runVars>>

\* the quantity the row-by-row loop adds to the cell of part r and month m:
\* the lines of the part whose date has month number m (.dt.month)
month_bucket(table, r, m) ==
  sum_over({k \in lines_of(table) : k[1] = r /\ k[2].month = m}, table)

\* as month_bucket, for the lines of the semi-finished parts of product r
semi_month_bucket(table, r, m) ==
  sum_over({k \in lines_of(table) :
              k[1] \in DOMAIN semi_dict /\ semi_dict[k[1]] = r /\ k[2].month = m},
           table)

RECURSIVE write_back(_, _, _, _)
\* for col in summary.columns[1:]: main_plan_df[col] = summary[col]
write_back(df, kind, months, value) ==
  IF months = <<>> THEN df
  ELSE LET m == Head(months)
       IN write_back(SetColumn(df, Col(kind, 0, m), [r \in Rows |-> Num(value[r][m])]),
                     kind, Tail(months), value)

aggregate_actual_fg_orders(df, df_order, months) ==
  IF empty(df_order) \/ months = <<>> THEN df
  ELSE write_back(df, "fg_actual", months,
                  [r \in Rows |-> [m \in SeqToSet(months) |-> month_bucket(df_order, r, m)]])

aggregate_actual_sfg_orders(df, df_order, months) ==
  IF empty(df_order) \/ DOMAIN semi_dict = {} \/ months = <<>> THEN df
  ELSE write_back(df, "semi_actual", months,
                  [r \in Rows |-> [m \in SeqToSet(months) |-> semi_month_bucket(df_order, r, m)]])

aggregate_actual_arrivals(df, df_arrival, months) ==
  IF empty(df_arrival) \/ months = <<>> THEN df
  ELSE write_back(df, "arrival", months,
                  [r \in Rows |-> [m \in SeqToSet(months) |-> month_bucket(df_arrival, r, m)]])

\* every sales line carries quantity 1 and amount 1
aggregate_sales_quantity_and_amount(df, df_sales, months) ==
  IF empty(df_sales) \/ months = <<>> THEN df
  ELSE LET value == [r \in Rows |-> [m \in SeqToSet(months) |-> month_bucket(df_sales, r, m)]]
       IN write_back(write_back(df, "sales_qty", months, value), "sales_amt", months, value)

AggregateActualFgOrders ==
  /\ phase = "fields"
  /\ phase' = "fg_orders"
  /\ main_plan_df' = aggregate_actual_fg_orders(main_plan_df, dataframes["order"], forecast_months)
  /\ UNCHANGED <<start_date, nrec, forecast_months, fg_df_plan, semi_df_plan, errors, waferVars, srcVars, runVars>>

AggregateActualSfgOrders ==
  /\ phase = "fg_orders"
  /\ phase' = "sfg_orders"
  /\ main_plan_df' = aggregate_actual_sfg_orders(main_plan_df, dataframes["order"], forecast_months)
  /\ UNCHANGED <<start_date, nrec, forecast_months, fg_df_plan, semi_df_plan, errors, waferVars, srcVars, runVars>>

AggregateActualArrivals ==
  /\ phase = "sfg_orders"
  /\ phase' = "arrivals"
  /\ main_plan_df' = aggregate_actual_arrivals(main_plan_df, dataframes["arrival"], forecast_months)
  /\ UNCHANGED <<start_date, nrec, forecast_months, fg_df_plan, semi_df_plan, errors, waferVars, srcVars, runVars>>

AggregateSalesQuantityAndAmount ==
  /\ phase = "arrivals"
  /\ phase' = "sales"
  /\ main_plan_df' = aggregate_sales_quantity_and_amount(main_plan_df, dataframes["sales"], forecast_months)
  /\ UNCHANGED <<start_date, nrec, forecast_months, fg_df_plan, semi_df_plan, errors, waferVars, srcVars, runVars>>

----------------------------------------------------------------------------
(* The supply-append steps of the wafer summary, row by row *)
(*   <<"pool",0,k>>          the column of the k-th warehouse name           *)
(* Here the wafer summary is a sequence of rows [name, cell], as a merge may  *)
(* give a wafer name more than one row.                                       *)

\* the tables the steps read: InvPart of the main plan, the wafer stock, the
\* CP WIP, the fab-out sheets, the fab WIP of the CP files and the dated
\* release plans of the main plan
SupplySources == {"safety", "inventory", "cp_wip", "fabout", "fab_wip", "plan"}
\* warehouse names, fab-out sheets or fabs
Sites == {"s1", "s2"}
\* the order in which drop_duplicates, groupby and pivot_table leave the names
WaferOrder == <<"W1", "W2">>
SiteOrder == <<"s1", "s2">>
SupplyKeys == Wafers \X Sites

\* the quantity of wafer w in a table, summed over its lines
site_sum(table, w) == sum_over(Sites, [s \in Sites |-> table[<<w, s>>]])

\* groupby(name).sum(): one row for each name of names that the table has
group_by_name(table, names, col) ==
  LET ws == SelectSeq(WaferOrder, LAMBDA w : w \in names)
  IN [k \in 1..Len(ws) |->
        [name |-> ws[k], cell |-> [c \in {col} |-> Num(site_sum(table, ws[k]))]]]

\* the wafer names with a line in the table
names_in(table) == {w \in Wafers : \E s \in Sites : table[<<w, s>>] > 0}

\* pivot_table(index=name, columns=warehouse): one row for each name, one
\* column for each warehouse name found
pivot_columns(table) ==
  LET ks == SelectSeq(<<1, 2>>, LAMBDA k : \E w \in Wafers : table[<<w, SiteOrder[k]>>] > 0)
  IN [j \in 1..Len(ks) |-> Col("pool", 0, ks[j])]

pivot_inventory(table) ==
  LET ws == SelectSeq(WaferOrder, LAMBDA w : w \in names_in(table))
  IN [k \in 1..Len(ws) |->
        [name |-> ws[k],
         cell |-> [c \in SeqToSet(pivot_columns(table)) |->
                     Num(table[<<ws[k], SiteOrder[c[3]]>>])]]]

\* monthly_agg: a row for every row of the fab summary, which has one row for
\* each pair of wafer name and fab
monthly_agg(table, col) ==
  LET ks == SelectSeq(<<1, 2, 3, 4>>,
                      LAMBDA k : table[<<WaferOrder[((k - 1) \div 2) + 1],
                                         SiteOrder[((k - 1) % 2) + 1]>>] > 0)
  IN [j \in 1..Len(ks) |->
        LET w == WaferOrder[((ks[j] - 1) \div 2) + 1]
            f == SiteOrder[((ks[j] - 1) % 2) + 1]
        IN [name |-> w, cell |-> [c \in {col} |-> Num(table[<<w, f>>])]]]

RECURSIVE merge_rows(_, _, _)
\* the rows of pd.merge(left, right, on=name, how="left"): a left row once
\* for every right row of its name, once with empty cells when there is none
merge_rows(rows, right, newcols) ==
  IF rows = <<>> THEN <<>>
  ELSE LET row == Head(rows)
           m   == SelectSeq(right, LAMBDA x : x.name = row.name)
           ext(cells) ==
             [name |-> row.name,
              cell |-> [c \in DOMAIN row.cell \cup SeqToSet(newcols) |->
                          IF c \in SeqToSet(newcols) THEN cells[c] ELSE row.cell[c]]]
       IN (IF m = <<>> THEN <<ext([c \in SeqToSet(newcols) |-> Blank])>>
           ELSE [j \in 1..Len(m) |-> ext(m[j].cell)])
          \o merge_rows(Tail(rows), right, newcols)

merge_left(df, right, newcols) ==
  [columns |-> df.columns \o newcols, rows |-> merge_rows(df.rows, right, newcols)]

InitSupply ==
  /\ wphase = "sources"
  /\ wrec = 0
  /\ dataframes = [src \in SupplySources |-> [k \in SupplyKeys |-> 0]]
  /\ df_unique_wafer = [columns |-> <<>>, rows |-> <<>>]
  /\ waterfall = [w \in Wafers |-> <<>>]
  /\ wafer_name = [r \in Rows |-> "W1"]
  /\ RunIdle

\* one more line for wafer w at site s in table src
UploadSupplyLine(src, w, s) ==
  /\ wphase = "sources"
  /\ wrec < MaxWaferRecords
  /\ wrec' = wrec + 1
  /\ dataframes' = [dataframes EXCEPT ![src][<<w, s>>] = @ + 1]
  /\ UNCHANGED <<wphase, df_unique_wafer, waterfall, planVars, wafer_name, runVars>>

\* extract_wafer_with_grossdie_raw: the wafer names of the main plan without
\* duplicates, no gross die figure found
ExtractWaferRows ==
  /\ wphase = "sources"
  /\ wphase' = "extracted"
  /\ df_unique_wafer' =
       [columns |-> <<Col("unit", 0, 0)>>,
        rows |-> [k \in 1..Len(WaferOrder) |->
                   [name |-> WaferOrder[k], cell |-> [c \in {Col("unit", 0, 0)} |-> Blank]]]]
  /\ UNCHANGED <<wrec, waterfall, planVars, srcVars, runVars>>

\* append_inventory_columns: InvPart summed for every wafer name of the main plan
MergeInventorySum ==
  /\ wphase = "extracted"
  /\ wphase' = "safety"
  /\ df_unique_wafer' =
       merge_left(df_unique_wafer,
                  group_by_name(dataframes["safety"], Wafers, Col("InvPart", 0, 0)),
                  <<Col("InvPart", 0, 0)>>)
  /\ UNCHANGED <<wrec, waterfall, planVars, srcVars, runVars>>

\* append_wafer_inventory_by_warehouse
MergePivotInventory ==
  /\ wphase = "safety"
  /\ wphase' = "inventory"
  /\ df_unique_wafer' =
       merge_left(df_unique_wafer,
                  pivot_inventory(dataframes["inventory"]),
                  pivot_columns(dataframes["inventory"]))
  /\ UNCHANGED <<wrec, waterfall, planVars, srcVars, runVars>>

\* append_cp_wip_total
MergeCpTotal ==
  /\ wphase = "inventory"
  /\ wphase' = "cp_wip"
  /\ df_unique_wafer' =
       merge_left(df_unique_wafer,
                  group_by_name(dataframes["cp_wip"], names_in(dataframes["cp_wip"]),
                                Col("cp_wip", 0, 0)),
                  <<Col("cp_wip", 0, 0)>>)
  /\ UNCHANGED <<wrec, waterfall, planVars, srcVars, runVars>>

\* append_fab_warehouse_quantity
MergeFabDf ==
  /\ wphase = "cp_wip"
  /\ wphase' = "fab_wh"
  /\ df_unique_wafer' =
       merge_left(df_unique_wafer,
                  group_by_name(dataframes["fabout"], names_in(dataframes["fabout"]),
                                Col("fab_wh", 0, 0)),
                  <<Col("fab_wh", 0, 0)>>)
  /\ UNCHANGED <<wrec, waterfall, planVars, srcVars, runVars>>

\* append_monthly_wo_from_weekly_fab, the fab WIP dated in the anchor month
MergeMonthlyAgg ==
  /\ wphase = "fab_wh"
  /\ wphase' = "wo"
  /\ df_unique_wafer' =
       merge_left(df_unique_wafer,
                  monthly_agg(dataframes["fab_wip"],
                              Col("wo", start_date.year, start_date.month)),
                  IF names_in(dataframes["fab_wip"]) = {} THEN <<>>
                  ELSE <<Col("wo", start_date.year, start_date.month)>>)
  /\ UNCHANGED <<wrec, waterfall, planVars, srcVars, runVars>>

\* append_monthly_demand_from_fg_plan on a main plan with a dated release-plan
\* column for the anchor month
MergeDiffDf ==
  /\ wphase = "wo"
  /\ wphase' = "demand"
  /\ df_unique_wafer' =
       merge_left(df_unique_wafer,
                  group_by_name(dataframes["plan"], Wafers,
                                Col("demand", start_date.year, start_date.month)),
                  <<Col("demand", start_date.year, start_date.month)>>)
  /\ UNCHANGED <<wrec, waterfall, planVars, srcVars, runVars>>

----------------------------------------------------------------------------
(* Two calls of PivotProcessor.process on the same auxiliary tables *)

\* number of calls of process() looked at
MaxRuns == 2

\* part names of the forecast file
Names == {"A", "B", "C"}
\* rows (old name, new name) the mapping file may hold: "A" was renamed "B",
\* "B" was renamed "C"
RenamePairs == {<<"A", "B">>, <<"B", "C">>}
\* the days the wall clock passes through
Days == {1, 2}

\* mapping_dict of apply_mapping_and_merge: old name -> new name
mapping_dict(mapping_new) ==
  [x \in {p[1] : p \in mapping_new} |-> (CHOOSE p \in mapping_new : p[1] = x)[2]]

\* lambda x: mapping_dict[x] if x in mapping_dict else x
replace_name(md, x) == IF x \in DOMAIN md THEN md[x] ELSE x

\* the table (a bag of unit lines per part name) with every name replaced once
apply_mapping_and_merge(table, md) ==
  [n \in Names |-> sum_over({x \in Names : replace_name(md, x) = n}, table)]

\* the names of the main plan: the names of the forecast lines, replaced once,
\* without duplicates
replace_all_names_with_mapping(table, md) ==
  {replace_name(md, x) : x \in {n \in Names : table[n] > 0}}

\* the slice of process() between the reading of the names and the forecast
\* merge: the rows of the main plan, the renamed forecast table, which replaces
\* the entry of the dict, and the forecast column of the main plan
process_forecast(sheets) ==
  LET md == mapping_dict(sheets.mapping)
      all_names == replace_all_names_with_mapping(sheets.forecast, md)
      df_new == apply_mapping_and_merge(sheets.forecast, md)
  IN [sheets |-> [sheets EXCEPT !.forecast = df_new],
      plan   |-> [r \in all_names |-> df_new[r]]]

InitRuns ==
  /\ start_date \in StartDates
  /\ \E m \in SUBSET RenamePairs :
       additional_sheets = [forecast |-> [n \in Names |-> 0], mapping |-> m]
  /\ clock = 1
  /\ runs = <<>>
  /\ wafer_name = [r \in Rows |-> "W1"]
  /\ dataframes = <<>>

\* one more forecast line for part n in the file that is loaded into the dict
UploadForecast(n) ==
  /\ runs = <<>>
  /\ nrec < MaxRecords
  /\ nrec' = nrec + 1
  /\ additional_sheets' = [additional_sheets EXCEPT !.forecast[n] = @ + 1]
  /\ UNCHANGED <<phase, start_date, main_plan_df, forecast_months, fg_df_plan, semi_df_plan, errors, waferVars, srcVars, clock, runs>>

\* a day passes
Tick ==
  /\ clock + 1 \in Days
  /\ clock' = clock + 1
  /\ UNCHANGED <<planVars, waferVars, srcVars, additional_sheets, runs>>

\* process(...) called with the dict: container[sheet_name] = df_new, and the
\* sheets are stamped with datetime.now()
Process ==
  /\ Len(runs) < MaxRuns
  /\ LET out == process_forecast(additional_sheets)
     IN /\ additional_sheets' = out.sheets
        /\ runs' = Append(runs, [plan |-> out.plan, stamp |-> clock])
  /\ UNCHANGED <<planVars, waferVars, srcVars, clock>>

----------------------------------------------------------------------------
(* Specifications *)

PlanIdle ==
  /\ phase = "idle"
  /\ nrec = 0
  /\ main_plan_df = [columns |-> <<>>, cell |-> [r \in Rows |-> <<>>]]
  /\ forecast_months = <<>>
  /\ fg_df_plan = <<>>
  /\ semi_df_plan = <<>>
  /\ errors = {}

WaferIdle ==
  /\ wphase = "idle"
  /\ wrec = 0
  /\ df_unique_wafer = [columns |-> <<>>, cell |-> [w \in Wafers |-> <<>>]]
  /\ waterfall = [w \in Wafers |-> <<>>]

SrcIdle ==
  /\ wafer_name = [r \in Rows |-> "W1"]
  /\ dataframes = <<>>
  /\ RunIdle

\* the release planners on the main plan
Init == InitPlan /\ WaferIdle /\ SrcIdle

Next ==
  \/ \E r \in Rows : \E c \in SeqToSet(main_plan_df.columns) : Upload(r, c)
  \/ InitMonthlyFields
  \/ GenerateMonthlyFgPlan
  \/ GenerateMonthlySemiPlan
  \/ AppendForecastAccuracyColumn

Spec == Init /\ [][Next]_vars

\* the allocation waterfall on the wafer summary
InitW == start_date \in WaferStartDates /\ PlanIdle /\ InitWafer /\ SrcIdle

NextW ==
  \/ \E w \in Wafers : \E g \in GrossDieValues : UploadGrossDie(w, g)
  \/ \E w \in Wafers : \E c \in SeqToSet(df_unique_wafer.columns) : \E q \in DemandSteps :
       UploadWafer(w, c, q)
  \/ AllocateFgDemandMonthly

SpecWafer == InitW /\ [][NextW]_vars

\* the wafer demand translator on a main plan with dated release-plan columns
NextD ==
  \/ \E r \in Rows : \E c \in SeqToSet(main_plan_df.columns) : \E q \in {-1, 1} :
       UploadPlan(r, c, q)
  \/ AppendInventoryColumns
  \/ AppendMonthlyDemandFromFgPlan

SpecDemand == InitDemand /\ [][NextD]_vars

\* the aggregation of the detail tables into the main plan
InitA == InitAgg /\ WaferIdle

NextA ==
  \/ \E src \in Sources : \E p \in Parts : \E ym \in LineDates(start_date) :
       UploadLine(src, p, ym)
  \/ AppendUnfulfilledSummaryColumnsByDate
  \/ InitMonthlyFields
  \/ AggregateActualFgOrders
  \/ AggregateActualSfgOrders
  \/ AggregateActualArrivals
  \/ AggregateSalesQuantityAndAmount

SpecAgg == InitA /\ [][NextA]_vars

\* the gap reporters on the allocated wafer summary
InitG == start_date \in GapStartDates /\ PlanIdle /\ InitGap /\ SrcIdle

NextG ==
  \/ \E w \in Wafers : \E g \in GapDieValues : UploadGrossDie(w, g)
  \/ \E w \in Wafers : \E c \in SeqToSet(df_unique_wafer.columns) : \E q \in DemandSteps :
       UploadWafer(w, c, q)
  \/ AllocateFgDemandMonthly
  \/ AppendMonthlyGapColumns
  \/ AppendCumulativeGapColumns

SpecGap == InitG /\ [][NextG]_vars

\* repeated calls of process() on one dict of auxiliary tables
InitR == InitRuns /\ PlanIdle /\ WaferIdle

NextR ==
  \/ \E n \in Names : UploadForecast(n)
  \/ Tick
  \/ Process

SpecRuns == InitR /\ [][NextR]_vars

\* the supply-append steps on the wafer summary kept as rows
InitS == start_date \in GapStartDates /\ PlanIdle /\ InitSupply

NextS ==
  \/ \E src \in SupplySources : \E w \in Wafers : \E s \in Sites : UploadSupplyLine(src, w, s)
  \/ ExtractWaferRows
  \/ MergeInventorySum
  \/ MergePivotInventory
  \/ MergeCpTotal
  \/ MergeFabDf
  \/ MergeMonthlyAgg
  \/ MergeDiffDf

SpecSupply == InitS /\ [][NextS]_vars

\* the two release planners alone, on a main plan anchored in the plan year
InitP == Init /\ start_date.year = PlanYear

NextP ==
  \/ \E r \in Rows : \E c \in SeqToSet(main_plan_df.columns) : Upload(r, c)
  \/ InitMonthlyFields
  \/ GenerateMonthlyFgPlan
  \/ GenerateMonthlySemiPlan

SpecPlanners == InitP /\ [][NextP]_vars

\* the hand-off of process(): the release planners on the main plan, then the
\* wafer summary drawn from the main plan and the demand translator on it
InitH ==
  /\ InitPlan
  /\ wphase = "waiting"
  /\ wrec = 0
  /\ df_unique_wafer = [columns |-> <<>>, cell |-> [w \in Wafers |-> <<>>]]
  /\ waterfall = [w \in Wafers |-> <<>>]
  /\ SrcIdle

NextH ==
  \/ \E r \in Rows : \E c \in SeqToSet(main_plan_df.columns) : Upload(r, c)
  \/ InitMonthlyFields
  \/ GenerateMonthlyFgPlan
  \/ GenerateMonthlySemiPlan
  \/ ExtractWaferWithGrossdieRaw
  \/ AppendInventoryColumns
  \/ AppendMonthlyDemandFromFgPlan

SpecHandoff == InitH /\ [][NextH]_vars

\* both row-by-row pipelines: a run is either the release planners on a main
\* plan with a forecast for every month of the window or the waterfall and
\* the gap reporters on the wafer summary
InitE ==
  \/ Init /\ start_date.year = PlanYear
          /\ ForecastLabels(main_plan_df) = Window(start_date)
  \/ InitG

NextE ==
  \/ \E r \in Rows : \E c \in SeqToSet(main_plan_df.columns) : Upload(r, c)
  \/ InitMonthlyFields
  \/ GenerateMonthlyFgPlan
  \/ GenerateMonthlySemiPlan
  \/ \E w \in Wafers : \E g \in GapDieValues \ {0} : UploadGrossDie(w, g)
  \/ \E w \in Wafers : \E c \in SeqToSet(df_unique_wafer.columns) : \E q \in DemandSteps :
       UploadWafer(w, c, q)
  \/ AllocateFgDemandMonthly
  \/ AppendMonthlyGapColumns
  \/ AppendCumulativeGapColumns

SpecEntities == InitE /\ [][NextE]_vars

----------------------------------------------------------------------------
(* Properties of the release planners (checked under Spec, SpecPlanners) *)

Max2(a, b) == IF a > b THEN a ELSE b
Min2(a, b) == IF a < b THEN a ELSE b

\* the inputs of row r as the planners read them
InvPartOf(r)     == get(main_plan_df, Col("InvPart", 0, 0))[r]
FgStockOf(r)     == get(main_plan_df, Col("fg_inv", 0, 0))[r]
FgWipOf(r)       == get(main_plan_df, Col("fg_wip", 0, 0))[r]
SemiStockOf(r)   == get(main_plan_df, Col("sfg", 0, 0))[r]
SemiWipOf(r)     == get(main_plan_df, Col("sfg_wip", 0, 0))[r]
ForecastOf(r, m) == get(main_plan_df, Col("forecast", 0, m))[r]
OpenOrdersOf(r, m) == get(main_plan_df, Col("order", PlanYear, m))[r]
SalesOf(r, m)    == get(main_plan_df, Col("sales_qty", 0, m))[r]
FgActualOf(r, m) == get(main_plan_df, Col("fg_actual", 0, m))[r]
SemiActualOf(r, m) == get(main_plan_df, Col("semi_actual", 0, m))[r]

FgPlanned == phase \in {"fg", "semi"}

\* C1: for every row and every reported period i > 0,
\* plan[i] = plan[i-1] - actual_release[i-1] + max(forecast[i+1], open_orders[i+1]).
FgRecurrenceWithFeedback ==
  FgPlanned =>
    \A r \in Rows : \A n \in 2..Len(fg_df_plan) :
      fg_df_plan[n].val[r] =
        fg_df_plan[n - 1].val[r] - FgActualOf(r, forecast_months[n - 1])
        + Max2(ForecastOf(r, forecast_months[n + 1]),
               OpenOrdersOf(r, forecast_months[n + 1]))

\* C2: for every row with open_orders[0] + sales[0] <= forecast[0],
\* plan[0] = InvPart + max(forecast[0], open_orders[0])
\*           + max(forecast[1], open_orders[1]) - stock - WIP, whatever sales[0] is.
FgFirstMonthForecastCase ==
  FgPlanned /\ Len(fg_df_plan) >= 1 =>
    \A r \in Rows :
      LET m0 == forecast_months[1]
          m1 == forecast_months[2]
      IN OpenOrdersOf(r, m0) + SalesOf(r, m0) <= ForecastOf(r, m0) =>
           fg_df_plan[1].val[r] =
             InvPartOf(r) + Max2(ForecastOf(r, m0), OpenOrdersOf(r, m0))
             + Max2(ForecastOf(r, m1), OpenOrdersOf(r, m1))
             - FgStockOf(r) - FgWipOf(r)

\* C3: for every row with open_orders[0] + sales[0] > forecast[0],
\* plan[0] = InvPart + (open_orders[0] + sales[0])
\*           + max(forecast[1], open_orders[1]) - stock - WIP.
FgFirstMonthRealizedCase ==
  FgPlanned /\ Len(fg_df_plan) >= 1 =>
    \A r \in Rows :
      LET m0 == forecast_months[1]
          m1 == forecast_months[2]
      IN OpenOrdersOf(r, m0) + SalesOf(r, m0) > ForecastOf(r, m0) =>
           fg_df_plan[1].val[r] =
             InvPartOf(r) + (OpenOrdersOf(r, m0) + SalesOf(r, m0))
             + Max2(ForecastOf(r, m1), OpenOrdersOf(r, m1))
             - FgStockOf(r) - FgWipOf(r)

\* C9: for every row of the semi-finished mapping and every period i > 0,
\* semi_plan[i] = semi_plan[i-1] - semi_actual_release[i-1]
\*                + max(forecast[i+1], open_orders[i+1]).
SemiRecurrenceWithFeedback ==
  phase = "semi" =>
    \A r \in mask : \A n \in 2..Len(semi_df_plan) :
      semi_df_plan[n].val[r] =
        semi_df_plan[n - 1].val[r] - SemiActualOf(r, forecast_months[n - 1])
        + Max2(ForecastOf(r, forecast_months[n + 1]),
               OpenOrdersOf(r, forecast_months[n + 1]))

\* the cell of row r in the semi-finished plan column of the first month holds a number
SemiFirstMonthWritten(r) ==
  /\ phase = "semi"
  /\ Len(forecast_months) >= 2
  /\ Col("semi_plan", 0, forecast_months[1]) \in SeqToSet(main_plan_df.columns)
  /\ ~main_plan_df.cell[r][Col("semi_plan", 0, forecast_months[1])].blank

\* C10: for every row of the semi-finished mapping, the semi-finished plan of
\* the first month is the finished-goods plan the finished-goods planner
\* produced for the row minus semi-finished stock and semi-finished WIP.
SemiFirstMonthFromFgPlan ==
  \A r \in mask :
    SemiFirstMonthWritten(r) =>
      /\ Len(fg_df_plan) >= 1
      /\ main_plan_df.cell[r][Col("semi_plan", 0, forecast_months[1])].num =
           fg_df_plan[1].val[r] - SemiStockOf(r) - SemiWipOf(r)

\* a mapped row with a finished-goods plan and semi-finished stock got its value
SemiFirstMonthWitness ==
  \E r \in mask :
    /\ SemiFirstMonthWritten(r)
    /\ fg_df_plan[1].val[r] >= 1
    /\ SemiStockOf(r) >= 1

\* C11: after the semi-finished planner has run, every row that is neither a
\* semi-finished identifier nor the finished-goods identifier it feeds holds
\* the empty marker (not 0) in every semi-finished plan column, for every period.
SemiColumnsEmptyOutsideMapping ==
  phase \in {"semi", "accuracy", "raised"} =>
    \A r \in Rows \ combined_names :
      \A c \in SeqToSet(main_plan_df.columns) :
        c[1] = "semi_plan" => main_plan_df.cell[r][c] = Blank

\* the planner wrote its columns, and it had computed a figure other than 0
\* for a row outside the mapping
SemiColumnsEmptyWitness ==
  /\ phase = "semi"
  /\ "semi_plan_write_failed" \notin errors
  /\ Len(semi_df_plan) >= 1
  /\ \E r \in Rows \ combined_names : semi_df_plan[1].val[r] # 0
  /\ \E r \in combined_names \cap Rows :
       ~main_plan_df.cell[r][semi_df_plan[1].name].blank

\* parts entered in the mapping file as semi-finished whose line names no
\* finished-goods part, and which no other line of the mapping resolves
UnmappedSemi ==
  {m.semi : m \in {x \in MappingFile : x.semi # "" /\ x.new = "" /\ x.old = ""}}
    \ ({m.semi : m \in {x \in MappingFile : x.new # "" \/ x.old # ""}}
        \cup {m.new : m \in MappingFile} \cup {m.old : m \in MappingFile})

\* the table with row r emptied
without_row(df, r) ==
  [df EXCEPT !.cell[r] = [c \in DOMAIN df.cell[r] |-> Blank]]

\* C23: after the semi-finished planner has run, a row of the main plan whose
\* part is entered as semi-finished without a resolvable finished-goods part
\* holds the empty marker in every semi-finished plan column; the
\* finished-goods plan cells of every other row are those computed without
\* that row; and the planner has returned, the only messages being those of
\* a plan table whose column count differs from the main plan's.
UnmappedSemiKeepsEmpty ==
  phase = "semi" =>
    \A r \in UnmappedSemi \cap Rows :
      /\ \A c \in SeqToSet(main_plan_df.columns) :
           c[1] = "semi_plan" => main_plan_df.cell[r][c] = Blank
      /\ LET alone == fg_plan_table(without_row(main_plan_df, r), forecast_months)
         IN \A x \in Rows \ {r} : \A k \in 1..Len(fg_df_plan) :
              /\ fg_df_plan[k].val[x] = alone[k].val[x]
              /\ "fg_plan_write_failed" \notin errors =>
                   main_plan_df.cell[x][fg_df_plan[k].name] = Num(alone[k].val[x])
      /\ errors \subseteq {"fg_plan_write_failed", "semi_plan_write_failed"}
      /\ "semi_plan_write_failed" \in errors <=>
           ~counts_match(semi_plan_cols_in_summary(main_plan_df), semi_df_plan)

\* both planners wrote their columns; the unmapped part has figures of its
\* own (a plan other than 0 was computed for it) and another row has a
\* finished-goods plan other than 0
UnmappedSemiWitness ==
  /\ phase = "semi"
  /\ errors = {}
  /\ Len(semi_df_plan) >= 1
  /\ \E r \in UnmappedSemi \cap Rows :
       /\ semi_df_plan[1].val[r] # 0
       /\ main_plan_df.cell[r][semi_df_plan[1].name] = Blank
       /\ \E x \in Rows \ {r} : fg_df_plan[1].val[x] # 0

\* the open-order bucket the aggregator wrote for row r and month m of the
\* horizon: the column carries the year of the anchor date
BucketOf(r, m) == get(main_plan_df, Col("order", start_date.year, m))[r]

\* C25: for every anchor date, the plans the planners computed are those the
\* recurrences give with the open-order buckets of the horizon's own periods
\* (same year and month): the first finished-goods month with the buckets of
\* periods 0 and 1, every later finished-goods and semi-finished month with the
\* bucket of the period after it.
OpenOrderLookupByPeriod ==
  FgPlanned =>
    \A r \in Rows :
      /\ \A n \in 1..Len(fg_df_plan) :
           LET this == forecast_months[n]
               next == forecast_months[n + 1]
           IN fg_df_plan[n].val[r] =
                IF n = 1
                THEN fg_first_month(InvPartOf(r), FgStockOf(r), FgWipOf(r),
                                    BucketOf(r, this), SalesOf(r, this),
                                    ForecastOf(r, this), ForecastOf(r, next),
                                    BucketOf(r, next))
                ELSE fg_later_month(fg_df_plan[n - 1].val[r],
                                    FgActualOf(r, forecast_months[n - 1]),
                                    ForecastOf(r, next), BucketOf(r, next))
      /\ \A n \in 2..Len(semi_df_plan) :
           semi_df_plan[n].val[r] =
             semi_later_month(semi_df_plan[n - 1].val[r],
                              SemiActualOf(r, forecast_months[n - 1]),
                              ForecastOf(r, forecast_months[n + 1]),
                              BucketOf(r, forecast_months[n + 1]))

\* the cells of the finished-goods plan columns of a main plan
FgPlanCells(df) ==
  [r \in Rows |-> [c \in SeqToSet(fg_plan_cols_in_summary(df)) |-> df.cell[r][c]]]

\* C26: a step of the finished-goods planner puts the k-th computed column into
\* the k-th finished-goods plan column of the main plan, for every row, when
\* there are as many computed columns as plan columns, and otherwise reports
\* an error and leaves the main plan as it was; a step of the semi-finished
\* planner does the same with the semi-finished plan columns for the rows of
\* the mapping, and in neither case changes a finished-goods plan cell.
WriteBackAllOrNothing ==
  [][/\ (phase = "fields" /\ phase' = "fg") =>
          LET cols == fg_plan_cols_in_summary(main_plan_df)
          IN IF Len(cols) = Len(fg_df_plan')
             THEN /\ errors' = errors
                  /\ \A k \in 1..Len(cols) : \A r \in Rows :
                       main_plan_df'.cell[r][cols[k]] = Num(fg_df_plan'[k].val[r])
             ELSE /\ "fg_plan_write_failed" \in errors'
                  /\ main_plan_df' = main_plan_df
     /\ (phase = "fg" /\ phase' = "semi") =>
          LET cols == semi_plan_cols_in_summary(main_plan_df)
          IN /\ FgPlanCells(main_plan_df') = FgPlanCells(main_plan_df)
             /\ IF Len(cols) = Len(semi_df_plan')
                THEN /\ errors' = errors
                     /\ \A k \in 1..Len(cols) : \A r \in mask :
                          main_plan_df'.cell[r][cols[k]] = Num(semi_df_plan'[k].val[r])
                ELSE /\ "semi_plan_write_failed" \in errors'
                     /\ main_plan_df' = main_plan_df
    ]_vars

\* the finished-goods planner computed a plan other than 0, found another
\* number of plan columns in the main plan than it had computed, and the
\* plan columns of the main plan are still empty
WriteBackWitness ==
  /\ phase = "fg"
  /\ "fg_plan_write_failed" \in errors
  /\ \E r \in Rows : \E k \in 1..Len(fg_df_plan) : fg_df_plan[k].val[r] # 0
  /\ fg_plan_cols_in_summary(main_plan_df) # <<>>
  /\ \A r \in Rows : \A c \in SeqToSet(fg_plan_cols_in_summary(main_plan_df)) :
       main_plan_df.cell[r][c] = Blank

----------------------------------------------------------------------------
(* Properties of the allocation waterfall (checked under SpecWafer) *)

Allocated == wphase = "allocated"

\* the figure in column c of wafer w
WaferCell(w, c) == df_unique_wafer.cell[w][c].num

\* the yield of wafer w as the table holds it, and whether it is resolved
\* (present and not zero)
YieldCell(w)     == df_unique_wafer.cell[w][Col("unit", 0, 0)]
YieldResolved(w) == ~YieldCell(w).blank /\ YieldCell(w).num # 0

\* the calendar month of period i (period 1 is the anchor month)
PeriodMonth(i) == AddMonths(start_date, i - 1)
WoOf(w, ym)     == WaferCell(w, Col("wo", ym.year, ym.month))
DemandOf(w, ym) == WaferCell(w, Col("demand", ym.year, ym.month))
AllocOf(w, ym)  == df_unique_wafer.cell[w][Col("alloc", ym.year, ym.month)]

Periods(w) == 1..Len(waterfall[w])

\* the sum of the pools, the CP WIP and the dies of the wafers in the fab
\* warehouse and of the fab output dated before the anchor month
OnHandAtAnchor(w) ==
  LET y == YieldCell(w).num
      before == {c \in SeqToSet(df_unique_wafer.columns) :
                   /\ c[1] = "wo"
                   /\ MonthIndex(c[2], c[3]) < MonthIndex(start_date.year, start_date.month)}
      \* the fixture has the single WO column of the month before the anchor
      wo_before == IF before = {} THEN 0
                   ELSE WaferCell(w, CHOOSE c \in before : TRUE)
  IN WaferCell(w, Col("pool_split", 0, 0)) + WaferCell(w, Col("pool_eng", 0, 0))
     + WaferCell(w, Col("pool_tested", 0, 0)) + WaferCell(w, Col("pool_untested", 0, 0))
     + WaferCell(w, Col("cp_wip", 0, 0))
     + WaferCell(w, Col("fab_wh", 0, 0)) * y
     + wo_before * y

WaterfallRestNonNegative ==
  Allocated =>
    \A w \in Wafers : \A i \in Periods(w) :
      ~waterfall[w][i].nan => waterfall[w][i].rest_prev >= 0

\* a period whose demand exceeds what is available (the clamp acts) next to a
\* period with a negative demand
WaterfallRestWitness ==
  /\ Allocated
  /\ \E w \in Wafers : \E i \in Periods(w) :
       /\ ~waterfall[w][i].nan
       /\ waterfall[w][i].total_available - waterfall[w][i].demand < 0
       /\ waterfall[w][i].rest_prev = 0
  /\ \E w \in Wafers : \E i \in Periods(w) :
       /\ ~waterfall[w][i].nan
       /\ waterfall[w][i].demand < 0

\* C7: for every wafer type and period i, allocated[i] <= demand[i] whenever
\* demand[i] >= 0, and allocated[i] = total_available[i] whenever
\* total_available[i] < demand[i].
WaterfallConservation ==
  Allocated =>
    \A w \in Wafers : \A i \in Periods(w) :
      ~waterfall[w][i].nan =>
        LET demand    == DemandOf(w, PeriodMonth(i))
            allocated == AllocOf(w, PeriodMonth(i))
            total     == waterfall[w][i].total_available
        IN /\ ~allocated.blank
           /\ demand >= 0 => allocated.num <= demand
           /\ total < demand => allocated.num = total

\* a period that is served in part: something is available, less than the demand
WaterfallConservationWitness ==
  /\ Allocated
  /\ \E w \in Wafers : \E i \in Periods(w) :
       /\ ~waterfall[w][i].nan
       /\ waterfall[w][i].total_available >= 1
       /\ waterfall[w][i].total_available < DemandOf(w, PeriodMonth(i))

\* C8: a wafer type whose yield is unresolved (missing or zero) is skipped:
\* no allocation figure is computed for it, in particular none with a yield
\* of 1 in the place of the unresolved one.
UnresolvedYieldSkipped ==
  Allocated =>
    \A w \in Wafers : ~YieldResolved(w) =>
      \A i \in Periods(w) :
        /\ waterfall[w][i].nan
        /\ AllocOf(w, PeriodMonth(i)).blank

RECURSIVE AllocatedThrough(_, _)
\* what wafer w was allocated in the periods 1..i
AllocatedThrough(w, i) ==
  IF i = 0 THEN 0 ELSE waterfall[w][i].allocated + AllocatedThrough(w, i - 1)

RECURSIVE FabOutputThrough(_, _)
\* the fab output that reaches wafer w in the periods 2..i: that of the month
\* before each period, in dies at the yield of the table
FabOutputThrough(w, i) ==
  IF i <= 1 THEN 0
  ELSE WoOf(w, PeriodMonth(i - 1)) * YieldCell(w).num + FabOutputThrough(w, i - 1)

\* C27: for every wafer type with a yield figure and every period i, what was
\* allocated in the periods up to i plus the rest after period i is
\* total_available of the first period plus the fab output of the months
\* before the later periods times the yield: allocation neither makes nor
\* loses supply, whatever the sign of the demands.
SupplyConserved ==
  Allocated =>
    \A w \in Wafers : ~YieldCell(w).blank =>
      \A i \in Periods(w) :
        /\ ~waterfall[w][i].nan
        /\ AllocatedThrough(w, i) + waterfall[w][i].rest_prev
             = waterfall[w][1].total_available + FabOutputThrough(w, i)

----------------------------------------------------------------------------
(* Properties of the wafer demand translator (checked under SpecDemand) *)

RECURSIVE PlanSum(_, _)
\* the release plans of column c summed over the rows S
PlanSum(S, c) ==
  IF S = {} THEN 0
  ELSE LET r == CHOOSE x \in S : TRUE
       IN main_plan_df.cell[r][c].num + PlanSum(S \ {r}, c)

\* R[i] of wafer w: the release plan of period i summed over the rows linked to w
ReleaseOf(w, i) ==
  PlanSum({r \in Rows : wafer_name[r] = w},
          Col("fg_plan_ym", PeriodMonth(i).year, PeriodMonth(i).month))

PlanPeriods == 1..(Len(main_plan_df.columns) - 1)

\* C12: for every wafer type, with R[i] the sum of the release plans of the
\* rows linked to it, demand[0] = R[0] - InvPart and demand[i] = R[i] - R[i-1]
\* for i > 0, stored as it is when negative.
DemandTranslation ==
  wphase = "demand" =>
    \A w \in {wafer_name[r] : r \in Rows} :
      /\ df_unique_wafer.cell[w][Col("InvPart", 0, 0)] =
           Num(PlanSum({r \in Rows : wafer_name[r] = w}, Col("InvPart", 0, 0)))
      /\ \A i \in PlanPeriods :
           DemandOf(w, PeriodMonth(i)) =
             IF i = 1
             THEN ReleaseOf(w, 1) - df_unique_wafer.cell[w][Col("InvPart", 0, 0)].num
             ELSE ReleaseOf(w, i) - ReleaseOf(w, i - 1)

\* two rows feed one wafer, both with a release plan in a period, and the
\* summed plan falls in the next period: the demand stored there is negative
DemandTranslationWitness ==
  /\ wphase = "demand"
  /\ \E w \in {wafer_name[r] : r \in Rows} : \E i \in PlanPeriods \ {1} :
       /\ \A r \in Rows : wafer_name[r] = w
       /\ \A r \in Rows :
            main_plan_df.cell[r][Col("fg_plan_ym", PeriodMonth(i - 1).year,
                                     PeriodMonth(i - 1).month)].num >= 1
       /\ DemandOf(w, PeriodMonth(i)) <= -2

----------------------------------------------------------------------------
(* Properties of the planning horizon (checked under Spec) *)

\* C13: when no forecast column parses to a month, the period list is empty
\* and every later stage returns empty or unchanged output without raising.
EmptyHorizonRaisesNothing ==
  ForecastLabels(main_plan_df) = {} =>
    /\ forecast_months = <<>>
    /\ phase # "raised"

\* C14: the periods for which plan columns are generated are exactly the
\* months from the anchor month through the month before the last forecast
\* month; period 0 of the recurrence is the anchor month, and the last
\* forecast month gets no plan value.
HorizonFromAnchor ==
  FgPlanned /\ forecast_months # <<>> =>
    LET last == forecast_months[Len(forecast_months)]
    IN /\ Len(fg_df_plan) = last - start_date.month
       /\ \A k \in 1..Len(fg_df_plan) :
            fg_df_plan[k].name = Col("fg_plan", 0, start_date.month + k - 1)
       /\ \A c \in SeqToSet(main_plan_df.columns) :
            c[1] = "fg_plan" => c[3] \in start_date.month..(last - 1)

\* C15: the period list used by the planners goes up one calendar month at a
\* time, whatever the forecast month labels are.
PeriodsStepOneMonth ==
  phase \in {"fields", "fg", "semi", "accuracy", "raised"} =>
    \A k \in 1..(Len(forecast_months) - 1) :
      forecast_months[k + 1] = (forecast_months[k] % 12) + 1

----------------------------------------------------------------------------
(* Properties of the demand aggregation (checked under SpecAgg) *)

\* the open-order quantity of part r due in month ym on the uploaded lines
DueIn(r, ym) ==
  IF <<r, ym>> \in DOMAIN dataframes["unfulfilled"]
  THEN dataframes["unfulfilled"][<<r, ym>>] ELSE 0

\* the open-order quantity of part r due in the anchor month or before it
DueUpToAnchor(r) ==
  sum_over({k \in DOMAIN dataframes["unfulfilled"] :
              k[1] = r /\ MonthIndex(k[2].year, k[2].month)
                            <= MonthIndex(start_date.year, start_date.month)},
           dataframes["unfulfilled"])

\* the open-order bucket of part r for month ym in the main plan
OrderBucket(r, ym) == get(main_plan_df, Col("order", ym.year, ym.month))[r]

\* the lines of part r in table src dated year y, month m
LinesIn(src, r, y, m) ==
  LET k == <<r, [year |-> y, month |-> m]>>
  IN IF k \in DOMAIN dataframes[src] THEN dataframes[src][k] ELSE 0

Aggregated == phase = "sales"

\* C16: once the open-order step has run, for every part the anchor-month
\* open-order bucket is the sum of its open-order quantities due in the anchor
\* month or before it, every later bucket is the sum of the quantities due in
\* that month, and the table has no historical-backlog column.
OpenOrderBucketing ==
  phase # "sources" =>
    /\ \A r \in Rows :
         /\ OrderBucket(r, start_date) = DueUpToAnchor(r)
         /\ \A ym \in LineDates(start_date) :
              MonthIndex(ym.year, ym.month) > MonthIndex(start_date.year, start_date.month)
                => OrderBucket(r, ym) = DueIn(r, ym)
    /\ Col("hist_orders", 0, 0) \notin SeqToSet(main_plan_df.columns)

\* C17: after the aggregation, the cell of a part and a month of the horizon in
\* the order-placement, arrival and sales series holds exactly the lines dated in
\* that month of the anchor year; a line dated in a year-month outside the
\* horizon changes no cell.
ActualsHorizonBounded ==
  Aggregated =>
    \A r \in Rows : \A m \in SeqToSet(forecast_months) :
      /\ get(main_plan_df, Col("fg_actual", 0, m))[r] = LinesIn("order", r, start_date.year, m)
      /\ get(main_plan_df, Col("arrival", 0, m))[r] = LinesIn("arrival", r, start_date.year, m)
      /\ get(main_plan_df, Col("sales_qty", 0, m))[r] = LinesIn("sales", r, start_date.year, m)
      /\ get(main_plan_df, Col("sales_amt", 0, m))[r] = LinesIn("sales", r, start_date.year, m)

\* the columns of the aggregated series for month m of the horizon
SeriesColumns(m) ==
  {Col("order", start_date.year, m), Col("forecast", 0, m), Col("fg_actual", 0, m),
   Col("arrival", 0, m), Col("sales_qty", 0, m), Col("sales_amt", 0, m)}

\* C18: after the aggregation, every cell of a part and a month of the horizon in
\* every aggregated series (open orders, forecast, order placements, arrivals,
\* sales quantity and amount) is present and holds a number, also when the
\* source table is empty.
AggregatesZeroNotMissing ==
  Aggregated =>
    \A r \in Rows : \A m \in SeqToSet(forecast_months) : \A c \in SeriesColumns(m) :
      /\ c \in SeqToSet(main_plan_df.columns)
      /\ ~main_plan_df.cell[r][c].blank

----------------------------------------------------------------------------
(* Properties of the gap reporters (checked under SpecGap) *)

GapReported == wphase \in {"monthly_gap", "cumulative_gap"}
CumulativeGapReported == wphase = "cumulative_gap"

\* the reported gaps of wafer w for month ym, in thousandths of a wafer
GapOf(w, ym)    == df_unique_wafer.cell[w][Col("gap", ym.year, ym.month)]
CumGapOf(w, ym) == df_unique_wafer.cell[w][Col("cum_gap", ym.year, ym.month)]

Abs(x) == IF x >= 0 THEN x ELSE -x

\* g thousandths is n / y rounded to three decimals
RoundedToThousandths(g, n, y) == 2 * Abs(g * y - 1000 * n) <= y

\* C19 as stated: for every wafer type with yield > 0 and every period the
\* monthly gap is exactly (demand - allocated) / yield, and it is positive
\* exactly when the demand exceeds the allocation.
MonthlyGapExact ==
  GapReported =>
    \A w \in Wafers : YieldResolved(w) =>
      \A i \in Periods(w) :
        LET short == DemandOf(w, PeriodMonth(i)) - AllocOf(w, PeriodMonth(i)).num
            g     == GapOf(w, PeriodMonth(i)).num
        IN /\ g * YieldCell(w).num = 1000 * short
           /\ g > 0 <=> short > 0

\* C19: for every wafer type with yield > 0 and every period the monthly gap
\* is (demand - allocated) / yield rounded to three decimals; it is positive
\* only when the demand exceeds the allocation and negative only when the
\* allocation exceeds the demand.
MonthlyGapRounded ==
  GapReported =>
    \A w \in Wafers : YieldResolved(w) =>
      \A i \in Periods(w) :
        LET short == DemandOf(w, PeriodMonth(i)) - AllocOf(w, PeriodMonth(i)).num
            g     == GapOf(w, PeriodMonth(i))
        IN /\ ~g.blank
           /\ RoundedToThousandths(g.num, short, YieldCell(w).num)
           /\ g.num > 0 => short > 0
           /\ g.num < 0 => short < 0

\* a shortage of a few dies whose quotient by the yield is rounded up to a
\* positive gap of a thousandth of a wafer
MonthlyGapWitness ==
  /\ GapReported
  /\ \E w \in Wafers : \E i \in Periods(w) :
       /\ YieldResolved(w)
       /\ DemandOf(w, PeriodMonth(i)) > AllocOf(w, PeriodMonth(i)).num
       /\ GapOf(w, PeriodMonth(i)).num > 0
       /\ GapOf(w, PeriodMonth(i)).num * YieldCell(w).num
            # 1000 * (DemandOf(w, PeriodMonth(i)) - AllocOf(w, PeriodMonth(i)).num)

RECURSIVE DemandThrough(_, _)
\* the demand of wafer w summed over periods 1..i
DemandThrough(w, i) ==
  IF i = 0 THEN 0 ELSE DemandOf(w, PeriodMonth(i)) + DemandThrough(w, i - 1)

RECURSIVE CumulativeSupply(_, _)
\* the supply of wafer w accumulated through period i: what is on hand at the
\* anchor plus InvPart, plus the fab output of every earlier period in dies
CumulativeSupply(w, i) ==
  IF i = 1 THEN OnHandAtAnchor(w) + WaferCell(w, Col("InvPart", 0, 0))
  ELSE CumulativeSupply(w, i - 1) + WoOf(w, PeriodMonth(i - 1)) * YieldCell(w).num

\* C20: for every wafer type and period i the cumulative gap is (sum of
\* demand[0..i] - cumulative_supply[i]) / yield (to three decimals), the supply
\* being the period-0 total_available plus InvPart plus the fab output of the
\* earlier periods times the yield, never reduced by what was allocated; for a
\* wafer type without a usable yield there is no such figure.
CumulativeGapFormula ==
  CumulativeGapReported =>
    \A w \in Wafers : \A i \in Periods(w) :
      IF YieldResolved(w)
      THEN /\ ~CumGapOf(w, PeriodMonth(i)).blank
           /\ RoundedToThousandths(CumGapOf(w, PeriodMonth(i)).num,
                                   DemandThrough(w, i) - CumulativeSupply(w, i),
                                   YieldCell(w).num)
      ELSE CumGapOf(w, PeriodMonth(i)).blank

RECURSIVE MonthlyGapThrough(_, _)
\* the monthly gaps of wafer w reported for the periods 1..i, summed
MonthlyGapThrough(w, i) ==
  IF i = 0 THEN 0 ELSE GapOf(w, PeriodMonth(i)).num + MonthlyGapThrough(w, i - 1)

\* C28 as stated: for every wafer type with yield > 0 and every period i the
\* sum of the monthly gaps through i is exactly the cumulative gap of i plus
\* (InvPart + rest[i]) / yield, and with InvPart >= 0 the cumulative gap does
\* not exceed that sum.
GapsConsistentExact ==
  CumulativeGapReported =>
    \A w \in Wafers : YieldResolved(w) =>
      \A i \in Periods(w) :
        LET y    == YieldCell(w).num
            sg   == MonthlyGapThrough(w, i)
            cg   == CumGapOf(w, PeriodMonth(i)).num
            inv  == WaferCell(w, Col("InvPart", 0, 0))
            rest == waterfall[w][i].rest_prev
        IN /\ y * sg = y * cg + 1000 * (inv + rest)
           /\ inv >= 0 => cg <= sg

\* C28: for every wafer type with yield > 0 and every period i the sum of the
\* reported monthly gaps through i is the reported cumulative gap of i plus
\* (InvPart + rest[i]) / yield up to the rounding of the reported figures (half
\* a thousandth of a wafer for each of them), and with InvPart >= 0 the
\* cumulative gap exceeds that sum by no more than this rounding.
GapsConsistentRounded ==
  CumulativeGapReported =>
    \A w \in Wafers : YieldResolved(w) =>
      \A i \in Periods(w) :
        LET y    == YieldCell(w).num
            sg   == MonthlyGapThrough(w, i)
            cg   == CumGapOf(w, PeriodMonth(i)).num
            inv  == WaferCell(w, Col("InvPart", 0, 0))
            rest == waterfall[w][i].rest_prev
        IN /\ 2 * Abs(y * sg - y * cg - 1000 * (inv + rest)) <= (i + 1) * y
           /\ inv >= 0 => 2 * (cg - sg) <= i + 1

\* a later period of a wafer type with yield > 0 that ends with supply left
\* over, so that its cumulative gap lies below the sum of the monthly gaps
GapsConsistentWitness ==
  /\ CumulativeGapReported
  /\ \E w \in Wafers : \E i \in Periods(w) \ {1} :
       /\ YieldResolved(w)
       /\ waterfall[w][i].rest_prev > 0
       /\ CumGapOf(w, PeriodMonth(i)).num < MonthlyGapThrough(w, i)

\* C29: for every wafer type with yield > 0 and every period, whatever the sign
\* of the demand, the allocation does not exceed the demand and the reported
\* monthly gap is not negative; where the supply exceeds the demand the gap is
\* 0 and the surplus is the rest.
MonthlyGapNotNegative ==
  GapReported =>
    \A w \in Wafers : YieldResolved(w) =>
      \A i \in Periods(w) :
        LET demand == DemandOf(w, PeriodMonth(i))
            total  == waterfall[w][i].total_available
            g      == GapOf(w, PeriodMonth(i))
        IN /\ demand - AllocOf(w, PeriodMonth(i)).num >= 0
           /\ ~g.blank /\ g.num >= 0
           /\ total > demand =>
                g.num = 0 /\ waterfall[w][i].rest_prev = total - demand

\* a negative demand met by no supply at all: it is allocated as it stands,
\* the gap is 0 and the rest takes it up
MonthlyGapNotNegativeWitness ==
  /\ GapReported
  /\ \E w \in Wafers : \E i \in Periods(w) :
       /\ YieldResolved(w)
       /\ DemandOf(w, PeriodMonth(i)) < 0
       /\ waterfall[w][i].total_available = 0
       /\ GapOf(w, PeriodMonth(i)) = Num(0)
       /\ waterfall[w][i].rest_prev > 0

----------------------------------------------------------------------------
(* Properties of repeated runs (checked under SpecRuns) *)

\* C21: two calls of the engine on the same input tables and the same anchor
\* date write the same plan table; what the first call leaves behind in the
\* input tables changes nothing in the second.
RunsIdentical ==
  \A i, j \in 1..Len(runs) : runs[i].plan = runs[j].plan

----------------------------------------------------------------------------
(* Properties of the rows of both tables (checked under SpecEntities) *)

\* the table with every row but r emptied
only_row(df, r) ==
  [df EXCEPT !.cell = [x \in DOMAIN df.cell |->
                         IF x = r THEN df.cell[x]
                         ELSE [c \in DOMAIN df.cell[x] |-> Blank]]]

\* the values of row r in a computed plan table
series_of(df_plan, r) == [k \in 1..Len(df_plan) |-> df_plan[k].val[r]]

\* the plan series of row r are those computed from row r alone
SkuAlone(r) ==
  LET alone == only_row(main_plan_df, r)
  IN /\ phase \in {"fg", "semi"} =>
          series_of(fg_df_plan, r) = series_of(fg_plan_table(alone, forecast_months), r)
     /\ phase = "semi" =>
          series_of(semi_df_plan, r) = series_of(semi_plan_table(alone, forecast_months), r)

\* the allocation, rest and gap series of wafer w are those computed from
\* row w alone, step by step
WaferAlone(w) ==
  LET alone == only_row(df_unique_wafer, w)
      n     == Len(sorted_month_strs(alone))
      own   == [x \in Wafers |-> IF x = w THEN waterfall[w] ELSE [k \in 1..n |-> NaNMonth]]
  IN /\ wphase \in {"allocated", "monthly_gap", "cumulative_gap"} =>
          waterfall[w] = waterfall_row(alone, w, start_date, n)
     /\ wphase = "allocated" =>
          df_unique_wafer.cell[w] = allocation_columns(alone, own).cell[w]
     /\ wphase = "monthly_gap" =>
          df_unique_wafer.cell[w]
            = append_monthly_gap_columns(alone, gap_demand_cols(alone)).cell[w]
     /\ wphase = "cumulative_gap" =>
          df_unique_wafer.cell[w] = append_cumulative_gap_columns(alone, start_date).cell[w]

\* C22: the plan series of a row of the main plan are a function of that row's
\* cells only, and the allocation, rest and gap series of a wafer type are a
\* function of that wafer type's row only: emptying every other row of the
\* table gives the same series, so no change of another row's inputs changes
\* them and no rest passes from one wafer type to the next.
EntityIndependence ==
  /\ \A r \in Rows : SkuAlone(r)
  /\ \A w \in Wafers : WaferAlone(w)

\* one wafer type ends its first period with supply left over while the other
\* has a demand of which nothing is allocated
EntityIndependenceWitness ==
  /\ wphase = "cumulative_gap"
  /\ \E v, w \in Wafers :
       /\ v # w
       /\ ~waterfall[v][1].nan /\ waterfall[v][1].rest_prev > 0
       /\ ~waterfall[w][1].nan /\ waterfall[w][1].demand > 0
       /\ waterfall[w][1].allocated = 0

----------------------------------------------------------------------------
(* Properties of the hand-off between the stages (checked under SpecHandoff) *)

\* the months for which the finished-goods planner wrote a plan column into
\* the main plan
PlannedMonths ==
  IF "fg_plan_write_failed" \in errors THEN {}
  ELSE {fg_df_plan[k].name[3] : k \in 1..Len(fg_df_plan)}

\* C24: once the demand translator has run on the main plan the planners left,
\* the wafer summary has a demand column for every month for which the
\* finished-goods planner wrote a plan column, and the translator has not
\* failed for want of plan columns when the planner wrote at least one.
PlanColumnsHandedOver ==
  wphase \in {"demand", "failed"} =>
    /\ \A m \in PlannedMonths :
         \E c \in SeqToSet(df_unique_wafer.columns) : c[1] = "demand" /\ c[3] = m
    /\ PlannedMonths # {} => "ValueError: no fg plan columns" \notin errors

----------------------------------------------------------------------------
(* Properties of the supply-append steps (checked under SpecSupply) *)

\* C30: after the extraction and after every supply-append step (safety stock,
\* wafer stock, CP WIP, fab warehouse quantity, monthly fab output, demand) the
\* wafer summary has exactly one row for each wafer name of the main plan,
\* also when a wafer type is in process at two fabs.
OneRowPerWafer ==
  wphase \in {"extracted", "safety", "inventory", "cp_wip", "fab_wh", "wo", "demand"} =>
    /\ Len(df_unique_wafer.rows) = Cardinality(Wafers)
    /\ \A w \in Wafers :
         Cardinality({k \in 1..Len(df_unique_wafer.rows) : df_unique_wafer.rows[k].name = w}) = 1
====
